---- MODULE Spec2Model ----
(***************************************************************************)
(* Model of the resume-critic analysers.                                   *)
(*                                                                         *)
(* Part 1: ATSCompatibilityChecker (src/src/checkers/ats_compatibility.py) *)
(* One checker object over one document; its public methods are the        *)
(* actions.  The document, the path and the rules table are fixed by the   *)
(* constructor; issues and score are the mutable fields.                   *)
(*                                                                         *)
(* Part 2: ATSSystemDetector (src/src/checkers/ats_detector.py)            *)
(* The signature table is an attribute of the class; every detector reads  *)
(* and writes the same table.                                              *)
(*                                                                         *)
(* Part 3: KeywordMatcher (src/src/checkers/keyword_matcher.py)            *)
(* One matcher over a CV text and the keyword lists of a job description;  *)
(* texts and keywords are sequences of characters.                         *)
(*                                                                         *)
(* Part 4: JobDescriptionParser (src/src/parsers/jd_parser.py) and         *)
(* StructureAnalyzer (src/src/parsers/structure_analyzer.py)               *)
(* One parser and one analyzer over a job description text, a sequence of  *)
(* characters; a character outside ASCII is written as its code point.     *)
(***************************************************************************)
EXTENDS Integers, Sequences, FiniteSets, TLC

VARIABLES
    cv_path,    \* extension of self.cv_path (os.path.splitext(...)[1])
    rules,      \* self.rules
    doc,        \* self.doc (loaded = FALSE models None)
    issues,     \* self.issues
    score,      \* self.score
    last,       \* the method called last and the value it returned
    report,     \* the dict returned by the last generate_report
    calls,      \* number of method calls made on the checker so far
    raised,     \* the exception the last call left with ("" when it returned)
    ATS_SIGNATURES, \* ATSSystemDetector.ATS_SIGNATURES, the class attribute
    detector,       \* the detector constructed last (its rules file)
    constructions,  \* number of calls of the detector's constructor so far
    det_last,       \* the detector call made last: arguments, value, exception
    cv_text,        \* KeywordMatcher: self.cv_text
    jd_keywords,    \* KeywordMatcher: self.jd_keywords, (category, keywords) in order
    match,          \* the dict calculate_match_percentage returned last
    suggestions,    \* the list the last call returned, when it was
                    \* suggest_keyword_placements
    jd_text,        \* JobDescriptionParser and StructureAnalyzer: self.jd_text
    hash_seed,      \* the seed of str hashes of the interpreter process
    jd_last,        \* the parser or analyzer method called last and its value
    jd_analysis     \* the dict the last extract_all of the process returned

checker_vars == <<cv_path, rules, doc, issues, score, last, report, calls, raised>>

detector_vars == <<ATS_SIGNATURES, detector, constructions, det_last>>

matcher_vars == <<cv_text, jd_keywords, match, suggestions>>

parser_vars == <<jd_text, hash_seed, jd_last, jd_analysis>>

vars == <<checker_vars, detector_vars, matcher_vars, parser_vars>>

----------------------------------------------------------------------------
(* Bounds of the model *)

MaxSections == 2
MaxCalls == 2
MaxDetectors == 2
MaxTextLen == 3
MaxPermuted == 3
MaxLines == 2

----------------------------------------------------------------------------
(* Small helpers *)

Max(a, b) == IF a >= b THEN a ELSE b

RECURSIVE SumDeductions(_)
SumDeductions(s) ==
    IF s = <<>> THEN 0 ELSE Head(s).deduction + SumDeductions(Tail(s))

SeqsUpTo(S, n) == UNION {[1..k -> S] : k \in 1..n}

----------------------------------------------------------------------------
(* Inputs: file extensions, rules tables, documents *)

Exts == {".docx", ".DOCX", ".pdf"}

\* str.lower() on the extensions of the model
Lower(e) == IF e = ".DOCX" THEN ".docx" ELSE e

SCORING_WEIGHTS ==
    [file_format |-> 30, layout |-> 25, font |-> 10, graphics |-> 20,
     headers_footers |-> 15]

\* the rules used when the rules file is not found
DefaultRules ==
    [formatting |->
        [file_formats |-> [allowed |-> {".docx"}, prohibited |-> {".pdf", ".doc"}],
         fonts |-> [allowed |-> {"Calibri", "Arial", "Times New Roman"},
                    size_range |-> [min |-> 10, max |-> 12]]],
     scoring |->
        [file_format_weight |-> 30, layout_weight |-> 25, font_weight |-> 10,
         graphics_weight |-> 20, headers_weight |-> 15]]

\* a rules file (yaml.safe_load) that allows .pdf only
PdfRules ==
    [formatting |->
        [file_formats |-> [allowed |-> {".pdf"}, prohibited |-> {".doc"}],
         fonts |-> [allowed |-> {"Calibri", "Arial", "Times New Roman"},
                    size_range |-> [min |-> 10, max |-> 12]]],
     scoring |->
        [file_format_weight |-> 30, layout_weight |-> 25, font_weight |-> 10,
         graphics_weight |-> 20, headers_weight |-> 15]]

\* a rules file with other weights
CustomRules ==
    [formatting |->
        [file_formats |-> [allowed |-> {".docx"}, prohibited |-> {".pdf", ".doc"}],
         fonts |-> [allowed |-> {"Calibri", "Arial", "Times New Roman"},
                    size_range |-> [min |-> 10, max |-> 12]]],
     scoring |->
        [file_format_weight |-> 20, layout_weight |-> 25, font_weight |-> 5,
         graphics_weight |-> 20, headers_weight |-> 15]]

RulesTables == {DefaultRules, PdfRules, CustomRules}

\* yaml.safe_load of an empty file
None == [type |-> "NoneType"]

\* a rules file that is a mapping without the key 'formatting'
OtherKeysRules == [checks |-> [strict |-> TRUE]]

\* a rules file whose 'formatting' has no 'fonts'
NoFontsRules ==
    [formatting |->
        [file_formats |-> [allowed |-> {".docx"}, prohibited |-> {".pdf", ".doc"}]]]

\* what may be found at rules_path: nothing, or a file of this content
RulesFiles ==
    {"absent", "pdf_only.yaml", "custom.yaml", "empty.yaml", "other_keys.yaml",
     "no_fonts.yaml", "broken.yaml"}

\* does yaml.safe_load parse the file (it raises yaml.YAMLError otherwise)
Parsable(f) == f # "broken.yaml"

safe_load(f) ==
    CASE f = "pdf_only.yaml" -> PdfRules
      [] f = "custom.yaml" -> CustomRules
      [] f = "empty.yaml" -> None
      [] f = "other_keys.yaml" -> OtherKeysRules
      [] f = "no_fonts.yaml" -> NoFontsRules

\* self.rules after the try/except of __init__, for a file that parses
LoadRules(f) == IF f = "absent" THEN DefaultRules ELSE safe_load(f)

\* the exception of r[path[1]][path[2]]..., "" when every key is there
RECURSIVE LookupError(_, _)
LookupError(r, path) ==
    IF path = <<>> THEN ""
    ELSE IF r = None THEN "TypeError"
    ELSE IF Head(path) \notin DOMAIN r THEN "KeyError"
    ELSE LookupError(r[Head(path)], Tail(path))

\* paragraph text of a header or footer; Strip is str.strip()
Strip(t) == IF t = " " THEN "" ELSE t

\* a section: column count (sections that expose section.columns.count),
\* header paragraphs' texts, footer paragraphs' texts
SectionKinds ==
    [columns : {1, 2},
     header : {<<>>, <<"John Doe">>},
     footer : {<<" ">>, <<"Page 1">>}]

\* the runs of the paragraphs, in document order; a run has a font name
\* ("" models None) and a size in pt (0 models None)
RunLists ==
    {<<[name |-> "", size |-> 0]>>,
     <<[name |-> "Calibri", size |-> 11]>>,
     <<[name |-> "Comic Sans MS", size |-> 11]>>,
     <<[name |-> "Calibri", size |-> 14]>>,
     <<[name |-> "Calibri", size |-> 11], [name |-> "Comic Sans MS", size |-> 9]>>}

\* relationship targets of the document part
RelSets == {{"styles.xml"}, {"styles.xml", "media/image1.png"}}

ContainsImage(target) == target = "media/image1.png"

\* the joined paragraph text, as the set of glyphs occurring in it (code points;
\* U+2022 is the standard bullet)
Texts == {{"a", "U+2022"}, {"a", "U+2192", "U+25A0"}}

\* the documents whose section list is one of secs
DocumentsOver(secs) ==
    [loaded : {TRUE},
     tables : {0, 1},
     sections : secs,
     runs : RunLists,
     rels : RelSets,
     text : Texts]

\* documents of up to MaxSections sections
Documents == DocumentsOver(SeqsUpTo(SectionKinds, MaxSections))

\* documents of one section, as Document() of python-docx creates them
OneSectionDocuments == DocumentsOver({<<k>> : k \in SectionKinds})

\* self.doc = None
NoDoc ==
    [loaded |-> FALSE, tables |-> 0, sections |-> <<>>, runs |-> <<>>,
     rels |-> {}, text |-> {}]

----------------------------------------------------------------------------
(* The checks.  Each yields the issue records it appends to self.issues     *)
(* (in order) and the value it returns.                                     *)

Issue(sev, text, ded) == [severity |-> sev, issue |-> text, deduction |-> ded]

CheckFileFormat(ext, r) ==
    LET allowed == r.formatting.file_formats.allowed IN
    IF Lower(ext) \notin allowed
    THEN LET deduction == -SCORING_WEIGHTS.file_format IN
         [issues |-> <<Issue("HIGH", "File format is", -deduction)>>,
          ret |-> deduction]
    ELSE [issues |-> <<>>, ret |-> 0]

\* does the section loop of check_layout find a section with more than one column
MultiColumn(d) == \E i \in 1..Len(d.sections) : d.sections[i].columns > 1

CheckLayout(d) ==
    IF ~d.loaded THEN [issues |-> <<>>, ret |-> 0]
    ELSE
      LET tab == IF d.tables > 0
                 THEN <<Issue("HIGH", "Found table(s)", 15)>> ELSE <<>>
          col == IF MultiColumn(d)
                 THEN <<Issue("HIGH", "Multi-column layout detected", 10)>>
                 ELSE <<>>
          deduction == (IF d.tables > 0 THEN 15 ELSE 0)
                       + (IF MultiColumn(d) THEN 10 ELSE 0)
      IN [issues |-> tab \o col, ret |-> -deduction]

CheckFonts(d, r) ==
    IF ~d.loaded THEN [issues |-> <<>>, ret |-> 0]
    ELSE
      LET allowed_fonts == r.formatting.fonts.allowed
          min_size == r.formatting.fonts.size_range.min
          max_size == r.formatting.fonts.size_range.max
          non_standard_fonts ==
              {d.runs[i].name : i \in {j \in 1..Len(d.runs) :
                  d.runs[j].name # "" /\ d.runs[j].name \notin allowed_fonts}}
          invalid_sizes ==
              {d.runs[i].size : i \in {j \in 1..Len(d.runs) :
                  d.runs[j].size # 0 /\ (d.runs[j].size < min_size
                                          \/ d.runs[j].size > max_size)}}
          fnt == IF non_standard_fonts # {}
                 THEN <<Issue("MEDIUM", "Non-standard fonts detected",
                              SCORING_WEIGHTS.font)>>
                 ELSE <<>>
          siz == IF invalid_sizes # {}
                 THEN <<Issue("LOW", "Font sizes outside recommended range", 5)>>
                 ELSE <<>>
          deduction == (IF non_standard_fonts # {} THEN SCORING_WEIGHTS.font ELSE 0)
                       + (IF invalid_sizes # {} THEN 5 ELSE 0)
      IN [issues |-> fnt \o siz, ret |-> -deduction]

\* HasContent without the strip(): whitespace counts as content
HasContentNoStrip(paragraphs) ==
    \E i \in 1..Len(paragraphs) : paragraphs[i] # ""

\* any(p.text.strip() for p in paragraphs)
HasContent(paragraphs) ==
    \E i \in 1..Len(paragraphs) : Strip(paragraphs[i]) # ""

\* the issues one section adds in the loop of check_headers_footers
SectionIssues(s) ==
    (IF s.header # <<>> /\ HasContent(s.header)
     THEN <<Issue("MEDIUM", "Header contains text", 8)>> ELSE <<>>)
    \o
    (IF s.footer # <<>> /\ HasContent(s.footer)
     THEN <<Issue("MEDIUM", "Footer contains text", 7)>> ELSE <<>>)

RECURSIVE HeaderFooterLoop(_)
HeaderFooterLoop(sections) ==
    IF sections = <<>> THEN <<>>
    ELSE SectionIssues(Head(sections)) \o HeaderFooterLoop(Tail(sections))

CheckHeadersFooters(d) ==
    IF ~d.loaded THEN [issues |-> <<>>, ret |-> 0]
    ELSE LET found == HeaderFooterLoop(d.sections)
         IN [issues |-> found, ret |-> -SumDeductions(found)]

\* CheckGraphics with the severity of the font check
CheckGraphicsMedium(d) ==
    IF ~d.loaded THEN [issues |-> <<>>, ret |-> 0]
    ELSE
      IF \E t \in d.rels : ContainsImage(t)
      THEN [issues |-> <<Issue("MEDIUM", "Images/graphics detected",
                               SCORING_WEIGHTS.graphics)>>,
            ret |-> -SCORING_WEIGHTS.graphics]
      ELSE [issues |-> <<>>, ret |-> 0]

CheckGraphics(d) ==
    IF ~d.loaded THEN [issues |-> <<>>, ret |-> 0]
    ELSE
      LET has_graphics == \E t \in d.rels : ContainsImage(t) IN
      IF has_graphics
      THEN [issues |-> <<Issue("HIGH", "Images/graphics detected",
                               SCORING_WEIGHTS.graphics)>>,
            ret |-> -SCORING_WEIGHTS.graphics]
      ELSE [issues |-> <<>>, ret |-> 0]

\* CheckSpecialCharacters returning the deduction with the wrong sign
CheckSpecialCharactersPositive(d) ==
    IF ~d.loaded THEN [issues |-> <<>>, ret |-> 0]
    ELSE
      IF d.text \cap {"U+2192", "U+25A0"} # {}
      THEN [issues |-> <<Issue("LOW", "Unusual bullet points detected", 5)>>,
            ret |-> 5]
      ELSE [issues |-> <<>>, ret |-> 0]

unusual_bullets ==
    {"U+2192", "U+25BA", "U+25AA", "U+25AB", "U+25A0", "U+25A1", "U+25C6", "U+25C7"}

CheckSpecialCharacters(d) ==
    IF ~d.loaded THEN [issues |-> <<>>, ret |-> 0]
    ELSE
      LET found_unusual == {b \in unusual_bullets : b \in d.text} IN
      IF found_unusual # {}
      THEN [issues |-> <<Issue("LOW", "Unusual bullet points detected", 5)>>,
            ret |-> -5]
      ELSE [issues |-> <<>>, ret |-> 0]

----------------------------------------------------------------------------
(* Report helpers *)

\* _get_grade with > for >= at the first threshold
GetGradeStrict(s) ==
    IF s > 90 THEN "A - Excellent"
    ELSE IF s >= 80 THEN "B - Good"
    ELSE IF s >= 70 THEN "C - Acceptable"
    ELSE IF s >= 60 THEN "D - Needs Improvement"
    ELSE "F - Major Issues"

_get_grade(s) ==
    IF s >= 90 THEN "A - Excellent"
    ELSE IF s >= 80 THEN "B - Good"
    ELSE IF s >= 70 THEN "C - Acceptable"
    ELSE IF s >= 60 THEN "D - Needs Improvement"
    ELSE "F - Major Issues"

\* the keywords of _get_recommendations that occur in issue['issue'].lower()
IssueWords(text) ==
    CASE text = "File format is" -> {"format"}
      [] text = "Found table(s)" -> {"table"}
      [] text = "Multi-column layout detected" -> {"column"}
      [] text = "Non-standard fonts detected" -> {"font"}
      [] text = "Font sizes outside recommended range" -> {"font"}
      [] text = "Header contains text" -> {"header"}
      [] text = "Footer contains text" -> {"footer"}
      [] text = "Images/graphics detected" -> {"image", "graphic"}
      [] OTHER -> {}

Recommendation(text) ==
    LET w == IssueWords(text) IN
    IF "table" \in w THEN {"Remove all tables and use plain text with bullets"}
    ELSE IF "column" \in w THEN {"Convert to single-column layout"}
    ELSE IF "font" \in w
         THEN {"Change all fonts to Calibri, Arial, or Times New Roman (10-12pt)"}
    ELSE IF "header" \in w \/ "footer" \in w
         THEN {"Move all header/footer content into main document body"}
    ELSE IF "image" \in w \/ "graphic" \in w
         THEN {"Remove all images, logos, and graphics"}
    ELSE IF "format" \in w THEN {"Convert file to .docx format"}
    ELSE {}

_get_recommendations(iss) ==
    UNION {Recommendation(iss[i].issue) : i \in 1..Len(iss)}

\* sorted(issues, key=deduction) without reverse=True
RECURSIVE InsertAscending(_, _)
InsertAscending(x, s) ==
    IF s = <<>> THEN <<x>>
    ELSE IF Head(s).deduction <= x.deduction
         THEN <<Head(s)>> \o InsertAscending(x, Tail(s))
         ELSE <<x>> \o s

RECURSIVE SortedAscending(_)
SortedAscending(s) ==
    IF s = <<>> THEN <<>>
    ELSE InsertAscending(s[Len(s)], SortedAscending(SubSeq(s, 1, Len(s) - 1)))

\* a descending sort that is not stable: an issue goes before its equals
RECURSIVE InsertBeforeEquals(_, _)
InsertBeforeEquals(x, s) ==
    IF s = <<>> THEN <<x>>
    ELSE IF Head(s).deduction > x.deduction
         THEN <<Head(s)>> \o InsertBeforeEquals(x, Tail(s))
         ELSE <<x>> \o s

\* sorted(issues, key=deduction, reverse=True): stable, equal keys keep their order
RECURSIVE InsertByDeduction(_, _)
InsertByDeduction(x, s) ==
    IF s = <<>> THEN <<x>>
    ELSE IF Head(s).deduction >= x.deduction
         THEN <<Head(s)>> \o InsertByDeduction(x, Tail(s))
         ELSE <<x>> \o s

RECURSIVE SortedByDeduction(_)
SortedByDeduction(s) ==
    IF s = <<>> THEN <<>>
    ELSE InsertByDeduction(s[Len(s)], SortedByDeduction(SubSeq(s, 1, Len(s) - 1)))

\* the exception check_file_format raises when it reads the rules
FileFormatError(r) == LookupError(r, <<"formatting", "file_formats", "allowed">>)

\* the exception check_fonts raises: the rules are read after the test of
\* self.doc
FontsError(d, r) ==
    IF ~d.loaded THEN ""
    ELSE IF LookupError(r, <<"formatting", "fonts", "allowed">>) # ""
         THEN LookupError(r, <<"formatting", "fonts", "allowed">>)
         ELSE LookupError(r, <<"formatting", "fonts", "size_range">>)

\* the exception that ends calculate_total_score, "" when it returns
ChecksError(r, d) ==
    IF FileFormatError(r) # "" THEN FileFormatError(r) ELSE FontsError(d, r)

\* the checks calculate_total_score has completed when that exception is raised
ChecksBeforeError(ext, r, d) ==
    IF FileFormatError(r) # "" THEN <<>>
    ELSE <<CheckFileFormat(ext, r), CheckLayout(d)>>

\* the six checks in the order calculate_total_score runs them
AllChecks(ext, r, d) ==
    <<CheckFileFormat(ext, r), CheckLayout(d), CheckFonts(d, r),
      CheckHeadersFooters(d), CheckGraphics(d), CheckSpecialCharacters(d)>>

RECURSIVE SumRets(_)
SumRets(cs) == IF cs = <<>> THEN 0 ELSE Head(cs).ret + SumRets(Tail(cs))

RECURSIVE ConcatIssues(_)
ConcatIssues(cs) ==
    IF cs = <<>> THEN <<>> ELSE Head(cs).issues \o ConcatIssues(Tail(cs))

\* self.score after the six += of calculate_total_score
ScoreAfterChecks(ext, r, d) == 100 + SumRets(AllChecks(ext, r, d))

\* calculate_total_score without the max(0, ...)
TotalScoreUnclamped(ext, r, d) == ScoreAfterChecks(ext, r, d)

\* the value calculate_total_score returns
TotalScore(ext, r, d) == Max(0, ScoreAfterChecks(ext, r, d))

NoReport == [score |-> -1, grade |-> "", issues |-> <<>>, recommendations |-> {}]

----------------------------------------------------------------------------
(* The detector's data.  A string is the sequence of its pieces, cut so     *)
(* that every pattern of the table is a run of whole pieces: 'x in y' is    *)
(* then 'x is a run of consecutive pieces of y'.                            *)

\* an optional string argument: None, or the string s
Absent == [given |-> FALSE, s |-> <<>>]

Str(s) == [given |-> TRUE, s |-> s]

\* the truth value of an Optional[str]: None and "" are false
Truthy(x) == x.given /\ x.s # <<>>

\* str.lower() of one piece or one character
LowerCase ==
    ("HTTPS://" :> "https://") @@ ("BOARDS." :> "boards.") @@
    ("Boards." :> "boards.") @@ ("GREENHOUSE" :> "greenhouse") @@
    ("GreenHouse" :> "greenhouse") @@ (".IO" :> ".io") @@
    ("<DIV ID=" :> "<div id=") @@ ("WORKDAY" :> "workday") @@ ("A" :> "a") @@
    ("B" :> "b") @@ ("C" :> "c") @@ ("D" :> "d") @@ ("E" :> "e") @@
    ("F" :> "f") @@ ("G" :> "g") @@ ("H" :> "h") @@ ("I" :> "i") @@
    ("J" :> "j") @@ ("K" :> "k") @@ ("L" :> "l") @@ ("M" :> "m") @@
    ("N" :> "n") @@ ("O" :> "o") @@ ("P" :> "p") @@ ("Q" :> "q") @@
    ("R" :> "r") @@ ("S" :> "s") @@ ("T" :> "t") @@ ("U" :> "u") @@
    ("V" :> "v") @@ ("W" :> "w") @@ ("X" :> "x") @@ ("Y" :> "y") @@
    ("Z" :> "z")

LowerToken(t) == IF t \in DOMAIN LowerCase THEN LowerCase[t] ELSE t

\* str.lower()
lower(s) == [i \in 1..Len(s) |-> LowerToken(s[i])]

\* pattern in s
Contains(pattern, s) ==
    \E i \in 0..(Len(s) - Len(pattern)) : SubSeq(s, i + 1, i + Len(pattern)) = pattern

Min(S) == CHOOSE x \in S : \A y \in S : x <= y

\* the class attribute as the module defines it, in the order of the dict
BuiltInSignatures ==
    <<[name |-> "greenhouse",
       config |->
         [url_patterns |-> <<<<"greenhouse", ".io">>, <<"boards.", "greenhouse", ".io">>>>,
          html_signatures |-> <<<<"data-", "greenhouse">>, <<"greenhouse">>>>,
          focus |-> "Keyword matching + scorecard alignment",
          tips |-> <<"Role title matches highly weighted",
                     "Answer knockout questions carefully",
                     "Keywords are heavily weighted">>]],
      [name |-> "workable",
       config |->
         [url_patterns |-> <<<<"workable", ".co", "m">>,
                             <<"apply.", "workable", ".co", "m">>>>,
          html_signatures |-> <<<<"workable", "-app">>, <<"workable">>>>,
          focus |-> "Skills matching + disqualification questions",
          tips |-> <<"Watch for disqualification questions",
                     "Parses .docx very well",
                     "Skills matching is primary scoring">>]],
      [name |-> "lever",
       config |->
         [url_patterns |-> <<<<"lever", ".co">>, <<"jobs.", "lever", ".co">>>>,
          html_signatures |-> <<<<"lever", "-form">>, <<"lever">>>>,
          focus |-> "Experience duration + cover letters",
          tips |-> <<"State years of experience clearly",
                     "Cover letters surfaced to recruiters",
                     "Write detailed cover letter">>]],
      [name |-> "ashby",
       config |->
         [url_patterns |-> <<<<"ashby", "hq", ".co", "m">>,
                             <<"jobs.", "ashby", "hq", ".co", "m">>>>,
          html_signatures |-> <<<<"ashby", "-job">>, <<"ashby">>>>,
          focus |-> "Modern, similar to Greenhouse",
          tips |-> <<"Treat similar to Greenhouse", "Strong keyword matching">>]],
      [name |-> "taleo",
       config |->
         [url_patterns |-> <<<<"taleo", ".net">>, <<"taleo", ".co", "m">>>>,
          html_signatures |-> <<<<"taleo">>>>,
          focus |-> "Strict keyword matching",
          tips |-> <<"Older system, very keyword-focused",
                     "Use exact terminology",
                     "Be thorough with all fields">>]],
      [name |-> "workday",
       config |->
         [url_patterns |-> <<<<"my", "workday", ".co", "m">>, <<"workday", ".co", "m">>>>,
          html_signatures |-> <<<<"workday">>>>,
          focus |-> "Enterprise, keyword-focused",
          tips |-> <<"Very keyword-driven",
                     "Complete all optional fields",
                     "Use exact matches">>]]>>

\* what may be found at the detector's rules_path
DetectorRulesFiles ==
    {"absent", "no_ats.yaml", "override.yaml", "new_system.yaml", "empty.yaml"}

\* does yaml.safe_load of the file give a mapping with the key 'ats_systems'
HasAtsSystems(f) == f \in {"override.yaml", "new_system.yaml"}

\* rules['ats_systems'] of the file, in the order of its items()
ats_systems(f) ==
    CASE f = "override.yaml" ->
           <<[name |-> "greenhouse",
              config |-> [url_patterns |-> <<<<"gh", ".example">>>>]],
             [name |-> "lever",
              config |-> [focus |-> "Cover letters",
                          tips |-> <<"Write detailed cover letter">>]]>>
      [] f = "new_system.yaml" ->
           <<[name |-> "icims",
              config |-> [url_patterns |-> <<<<"icims", ".co", "m">>>>,
                          html_signatures |-> <<<<"icims">>>>,
                          focus |-> "Profile completeness",
                          tips |-> <<"Complete the candidate profile">>]]>>

\* the names of a table's systems
SystemNames(sig) == {sig[i].name : i \in 1..Len(sig)}

\* dict.update
Update(old, new) ==
    [k \in DOMAIN old \cup DOMAIN new |-> IF k \in DOMAIN new THEN new[k] ELSE old[k]]

\* one round of the merge loop: ATS_SIGNATURES[system].update(config) when the
\* system is in the table, nothing otherwise
MergeSystem(sig, e) ==
    [i \in 1..Len(sig) |->
        IF sig[i].name = e.name
        THEN [name |-> e.name, config |-> Update(sig[i].config, e.config)]
        ELSE sig[i]]

\* the merge loop over rules['ats_systems'].items()
RECURSIVE MergeSystems(_, _)
MergeSystems(sig, ext) ==
    IF ext = <<>> THEN sig ELSE MergeSystems(MergeSystem(sig, Head(ext)), Tail(ext))

\* the value of detect_ats when nothing matches
NoSystem == "None"

\* the positions of the systems one of whose patterns (field) is in text
Hits(sig, field, text) ==
    {i \in 1..Len(sig) :
        \E j \in 1..Len(sig[i].config[field]) : Contains(sig[i].config[field][j], text)}

\* detect_ats that looks at the page before the URL
DetectAtsHtmlFirst(sig, application_url, page_html) ==
    IF Truthy(page_html) /\ Hits(sig, "html_signatures", lower(page_html.s)) # {}
    THEN sig[Min(Hits(sig, "html_signatures", lower(page_html.s)))].name
    ELSE IF Truthy(application_url)
            /\ Hits(sig, "url_patterns", lower(application_url.s)) # {}
    THEN sig[Min(Hits(sig, "url_patterns", lower(application_url.s)))].name
    ELSE NoSystem

\* detect_ats that compares without lower()
DetectAtsNoLower(sig, application_url, page_html) ==
    IF Truthy(application_url) /\ Hits(sig, "url_patterns", application_url.s) # {}
    THEN sig[Min(Hits(sig, "url_patterns", application_url.s))].name
    ELSE IF Truthy(page_html) /\ Hits(sig, "html_signatures", page_html.s) # {}
    THEN sig[Min(Hits(sig, "html_signatures", page_html.s))].name
    ELSE NoSystem

\* detect_ats over the table sig
DetectAts(sig, application_url, page_html) ==
    IF Truthy(application_url)
       /\ Hits(sig, "url_patterns", lower(application_url.s)) # {}
    THEN sig[Min(Hits(sig, "url_patterns", lower(application_url.s)))].name
    ELSE IF Truthy(page_html)
            /\ Hits(sig, "html_signatures", lower(page_html.s)) # {}
    THEN sig[Min(Hits(sig, "html_signatures", lower(page_html.s)))].name
    ELSE NoSystem

GenericTips ==
    [focus |-> "General ATS optimization",
     tips |-> <<"Use exact keywords from job description",
                "Ensure .docx format",
                "Single column layout",
                "No graphics or tables">>]

\* the config of a system of the table
ConfigOf(sig, ats_name) ==
    sig[CHOOSE i \in 1..Len(sig) : sig[i].name = ats_name].config

\* get_optimization_tips over the table sig
GetOptimizationTips(sig, ats_name) ==
    IF ats_name \notin SystemNames(sig) THEN GenericTips
    ELSE LET config == ConfigOf(sig, ats_name) IN
         [focus |-> IF "focus" \in DOMAIN config THEN config.focus
                    ELSE "General optimization",
          tips |-> IF "tips" \in DOMAIN config THEN config.tips ELSE <<>>]

\* get_all_systems over the table sig
GetAllSystems(sig) == [i \in 1..Len(sig) |-> sig[i].name]

\* the application URLs and pages detect_ats is called with
Urls ==
    {Absent, Str(<<>>),
     Str(<<"https://", "boards.", "greenhouse", ".io", "/acme">>),
     Str(<<"HTTPS://", "BOARDS.", "GREENHOUSE", ".IO", "/acme">>),
     Str(<<"https://", "Boards.", "GreenHouse", ".io", "/acme">>),
     Str(<<"https://", "jobs.", "lever", ".co", "/", "workable", ".co", "m">>),
     Str(<<"https://", "acme", ".co", "m", "/careers">>),
     Str(<<"https://", "gh", ".example", "/acme">>),
     Str(<<"https://", "icims", ".co", "m", "/acme">>)}

Htmls ==
    {Absent, Str(<<>>),
     Str(<<"<div ", "data-", "greenhouse", ">">>),
     Str(<<"<form class=", "lever", "-form", ">">>),
     Str(<<"<DIV ID=", "WORKDAY", ">">>),
     Str(<<"<p>", "hello", "</p>">>)}

\* the names get_optimization_tips is called with
AtsNames == SystemNames(BuiltInSignatures) \cup {"icims", "other"}

NoDetectorCall == [op |-> "", url |-> Absent, html |-> Absent, name |-> "",
                   value |-> "", raised |-> ""]

\* the module is imported and no detector has been constructed
NoDetector ==
    /\ ATS_SIGNATURES = BuiltInSignatures
    /\ detector = ""
    /\ constructions = 0
    /\ det_last = NoDetectorCall

----------------------------------------------------------------------------
(* The matcher's data and functions *)

\* the characters that are not word characters (\w) among those of the model
NonWordChars ==
    {" ", "\n", "+", "-", "*", ".", ",", ":", "!", "?", "/", "'", "U+2022", "U+2013"}

IsWordChar(c) == c \notin NonWordChars

\* the whitespace characters (\s) among those of the model
Whitespace == {" ", "\n"}

\* str.strip()
RECURSIVE strip(_)
strip(s) ==
    IF s = <<>> THEN s
    ELSE IF Head(s) \in Whitespace THEN strip(Tail(s))
    ELSE IF s[Len(s)] \in Whitespace THEN strip(SubSeq(s, 1, Len(s) - 1))
    ELSE s

\* is there a word character at position i of s (none outside the string)
WordAt(s, i) == i \in 1..Len(s) /\ IsWordChar(s[i])

\* \b between the characters p and p + 1 of s
Boundary(s, p) == WordAt(s, p) # WordAt(s, p + 1)

\* re.search(r'\b' + re.escape(keyword) + r'\b', text, re.IGNORECASE)
Search(keyword, text) ==
    \E i \in 0..(Len(text) - Len(keyword)) :
        /\ lower(SubSeq(text, i + 1, i + Len(keyword))) = lower(keyword)
        /\ Boundary(text, i)
        /\ Boundary(text, i + Len(keyword))

\* [k.lower().strip() for k in keywords if k]
RECURSIVE Normalized(_)
Normalized(keywords) ==
    IF keywords = <<>> THEN <<>>
    ELSE IF Head(keywords) = <<>> THEN Normalized(Tail(keywords))
    ELSE <<strip(lower(Head(keywords)))>> \o Normalized(Tail(keywords))

\* the comprehension without its 'if k'
RECURSIVE NormalizedUnfiltered(_)
NormalizedUnfiltered(keywords) ==
    IF keywords = <<>> THEN <<>>
    ELSE <<strip(lower(Head(keywords)))>> \o NormalizedUnfiltered(Tail(keywords))

\* the list of a category as category_matches counts it
CategoryKeywords(keywords) == Normalized(keywords)

\* the set all_keywords
AllKeywords(jd) ==
    UNION {{Normalized(jd[i].keywords)[j] : j \in 1..Len(Normalized(jd[i].keywords))} :
              i \in 1..Len(jd)}

\* category_matches, in the order of the categories
CategoryMatches(jd, text) ==
    [i \in 1..Len(jd) |->
        LET category_keywords == CategoryKeywords(jd[i].keywords)
            category_matched ==
                Cardinality({j \in 1..Len(category_keywords) :
                                Search(category_keywords[j], text)})
            total == Len(category_keywords)
        IN [category |-> jd[i].category,
            matched |-> category_matched,
            total |-> total,
            percentage |-> IF total > 0
                           THEN [num |-> category_matched * 100, den |-> total]
                           ELSE [num |-> 0, den |-> 1]]]

\* a percentage cut to one decimal, in tenths
TruncTenths(matched, total) == (1000 * matched) \div total

\* round(matched / total * 100, 1) in tenths of a percent: the nearest tenth,
\* the even one of two equally near
RoundTenths(matched, total) ==
    LET q == (1000 * matched) \div total
        r == (1000 * matched) % total
    IN IF 2 * r < total THEN q
       ELSE IF 2 * r > total THEN q + 1
       ELSE IF q % 2 = 0 THEN q ELSE q + 1

\* one enumeration of a set
RECURSIVE Enumeration(_)
Enumeration(S) ==
    IF S = {} THEN <<>>
    ELSE LET x == CHOOSE y \in S : TRUE IN <<x>> \o Enumeration(S \ {x})

\* the rotations of a sequence
Rotations(s) ==
    {[i \in 1..Len(s) |-> s[((i + k - 1) % Len(s)) + 1]] : k \in 0..(Len(s) - 1)}

\* the orders in which a loop may visit the elements of a set: every order
\* for a set of up to MaxPermuted elements, the rotations of one order for a
\* larger set
Orderings(S) ==
    IF Cardinality(S) <= MaxPermuted
    THEN {f \in [1..Cardinality(S) -> S] :
             \A i, j \in 1..Cardinality(S) : f[i] = f[j] => i = j}
    ELSE Rotations(Enumeration(S))

\* the first n elements of s
Prefix(s, n) == SubSeq(s, 1, IF Len(s) < n THEN Len(s) ELSE n)

\* the dict calculate_match_percentage returns when the loop over
\* all_keywords has appended the missing keywords in the order missing
MatchResult(jd, text, missing) ==
    LET total_keywords == Cardinality(AllKeywords(jd))
        matched_count == Cardinality({k \in AllKeywords(jd) : Search(k, text)})
    IN [total_keywords |-> total_keywords,
        matched_keywords |-> matched_count,
        missing_keywords |-> Len(missing),
        match_percentage |-> IF total_keywords > 0
                             THEN RoundTenths(matched_count, total_keywords)
                             ELSE 0,
        missing_keywords_list |-> Prefix(missing, 20),
        category_breakdown |-> CategoryMatches(jd, text)]

\* 'indicator in keyword.lower()' for some indicator of the list
AnyIndicator(indicators, keyword) ==
    \E i \in 1..Len(indicators) : Contains(indicators[i], lower(keyword))

technical_indicators ==
    <<<<"s", "q", "l">>, <<"p", "y", "t", "h", "o", "n">>, <<"j", "a", "v", "a">>,
      <<"t", "a", "b", "l", "e", "a", "u">>, <<"a", "w", "s">>,
      <<"d", "o", "c", "k", "e", "r">>>>

action_indicators ==
    <<<<"l", "e", "d">>, <<"m", "a", "n", "a", "g", "e", "d">>,
      <<"d", "e", "v", "e", "l", "o", "p", "e", "d">>,
      <<"i", "m", "p", "l", "e", "m", "e", "n", "t", "e", "d">>,
      <<"d", "e", "s", "i", "g", "n", "e", "d">>>>

\* _determine_best_section; the sections argument is not read
_determine_best_section(keyword) ==
    IF AnyIndicator(technical_indicators, keyword) THEN "skills"
    ELSE IF AnyIndicator(action_indicators, keyword) THEN "experience"
    ELSE "skills"

\* the priority taken from the category required_keywords of the mapping
PriorityFromMapping(analysis, missing_kw) ==
    IF \E c \in 1..Len(jd_keywords) :
           /\ jd_keywords[c].category = "required_keywords"
           /\ \E i \in 1..Len(jd_keywords[c].keywords) :
                  strip(lower(jd_keywords[c].keywords[i])) = missing_kw
    THEN "HIGH" ELSE "MEDIUM"

\* 'HIGH' if missing_kw in analysis.get('required_keywords', []) else 'MEDIUM'
Priority(analysis, missing_kw) ==
    IF /\ "required_keywords" \in DOMAIN analysis
       /\ \E i \in 1..Len(analysis["required_keywords"]) :
              analysis["required_keywords"][i] = missing_kw
    THEN "HIGH" ELSE "MEDIUM"

\* the list suggest_keyword_placements builds from the dict analysis
Suggestions(analysis) ==
    LET top == Prefix(analysis.missing_keywords_list, 10) IN
    [i \in 1..Len(top) |->
        [keyword |-> top[i],
         suggested_section |-> _determine_best_section(top[i]),
         priority |-> Priority(analysis, top[i])]]

\* the characters of the short CV texts
Alphabet == {"a", "b", "A", "+", " "}

ScenarioText == <<"I", " ", "u", "s", "e", " ", "S", "Q", "L", " ", "a", "n", "d", " ", "P", "y", "t", "h", "o", "n", " ", "d", "a", "i", "l", "y">>

CppText == <<"I", " ", "k", "n", "o", "w", " ", "C", "+", "+", " ", "a", "n", "d", " ", "P", "y", "t", "h", "o", "n">>

\* the CV texts: every text of up to MaxTextLen characters, and two sentences
CvTexts == {<<>>} \cup SeqsUpTo(Alphabet, MaxTextLen) \cup {ScenarioText, CppText}

\* the keyword mappings of a job description: (category, keywords) in order
JdKeywordSets ==
    {<<>>,
     <<[category |-> "skills", keywords |-> <<>>]>>,
     <<[category |-> "skills", keywords |-> <<<<"S", "Q", "L">>,
                                              <<"P", "y", "t", "h", "o", "n">>,
                                              <<"T", "a", "b", "l", "e", "a", "u">>>>]>>,
     <<[category |-> "skills", keywords |-> <<<<"C", "+", "+">>, <<"P", "y", "t", "h", "o", "n">>>>]>>,
     <<[category |-> "skills", keywords |-> <<<<"a">>, <<"b">>, <<"a", "b">>>>]>>,
     <<[category |-> "required_skills", keywords |-> <<<<"a">>>>],
       [category |-> "technical_skills", keywords |-> <<<<"b">>, <<"a", "a">>>>]>>,
     <<[category |-> "required_skills", keywords |-> <<<<"a">>>>],
       [category |-> "technical_skills", keywords |-> <<<<"a">>, <<"b">>>>]>>,
     <<[category |-> "skills", keywords |-> <<<<"a">>, <<"A">>, <<"b">>>>]>>,
     <<[category |-> "skills", keywords |-> <<<<"a">>, <<"a">>>>]>>,
     <<[category |-> "skills", keywords |-> <<<<>>, <<"a">>>>]>>,
     <<[category |-> "skills", keywords |-> <<<<"a", " ">>, <<"a", " ", "b">>>>]>>,
     <<[category |-> "skills", keywords |-> <<<<"a", "+">>, <<"b">>>>]>>,
     <<[category |-> "skills", keywords |-> <<<<"+">>>>]>>,
     <<[category |-> "skills", keywords |-> <<<<" ">>>>]>>,
     <<[category |-> "required_keywords",
        keywords |-> <<<<"b">>, <<"l", "e", "d">>, <<"S", "Q", "L">>>>]>>}

\* a mapping of more than 10 keywords
LongJdKeywords ==
    <<[category |-> "required_skills",
       keywords |-> <<<<"c">>, <<"d">>, <<"e">>, <<"f">>, <<"g">>, <<"h">>>>],
      [category |-> "required_keywords",
       keywords |-> <<<<"i">>, <<"j">>, <<"k">>, <<"l">>, <<"m">>, <<"n">>>>]>>

\* the CV texts the long mapping is matched against
LongCvTexts == {<<>>, <<"c">>, ScenarioText}

\* suggest_keyword_placements has not been called
NoSuggestions == <<[keyword |-> <<>>, suggested_section |-> "", priority |-> ""]>>

NoMatch ==
    [total_keywords |-> -1, matched_keywords |-> 0, missing_keywords |-> 0,
     match_percentage |-> 0, missing_keywords_list |-> <<>>,
     category_breakdown |-> <<>>]

\* no matcher has been constructed
NoMatcher ==
    /\ cv_text = <<>>
    /\ jd_keywords = <<>>
    /\ match = NoMatch
    /\ suggestions = NoSuggestions

----------------------------------------------------------------------------
(* The parser's data and functions: characters and strings *)

UpperLetters ==
    {"A", "B", "C", "D", "E", "F", "G", "H", "I", "J", "K", "L", "M", "N", "O",
     "P", "Q", "R", "S", "T", "U", "V", "W", "X", "Y", "Z"}

LowerLetters == {LowerToken(c) : c \in UpperLetters}

Letters == UpperLetters \cup LowerLetters

Digits == {"0", "1", "2", "3", "4", "5", "6", "7", "8", "9"}

\* [a-zA-Z\s]
TitleChars == Letters \cup Whitespace

\* the literal pat stands in s at the positions from + 1 .. from + Len(pat),
\* letter case aside
AtIgnoreCase(pat, s, from) ==
    /\ from + Len(pat) <= Len(s)
    /\ \A k \in 1..Len(pat) : LowerToken(s[from + k]) = LowerToken(pat[k])

\* the number of whitespace characters of s from position from + 1 on
RECURSIVE SpaceRun(_, _)
SpaceRun(s, from) ==
    IF from + 1 <= Len(s) /\ s[from + 1] \in Whitespace
    THEN 1 + SpaceRun(s, from + 1) ELSE 0

\* the number of characters of the set C that s has from position from + 1 on
Run(C, s, from) ==
    IF from >= Len(s) THEN 0
    ELSE (CHOOSE k \in (from + 1)..(Len(s) + 1) :
              /\ k > Len(s) \/ s[k] \notin C
              /\ \A j \in (from + 1)..(k - 1) : s[j] \in C) - from - 1

\* the pieces of s[lo..hi] between the positions of the set cuts, in order
RECURSIVE Pieces(_, _, _, _)
Pieces(s, cuts, lo, hi) ==
    LET inside == {c \in cuts : c >= lo /\ c <= hi}
        upper == {c \in inside : 2 * c >= lo + hi}
        m == IF upper # {} THEN Min(upper)
             ELSE CHOOSE c \in inside : \A d \in inside : d <= c
    IN IF inside = {} THEN <<SubSeq(s, lo, hi)>>
       ELSE Pieces(s, cuts, lo, m - 1) \o Pieces(s, cuts, m + 1, hi)

\* str.split(): the runs of non-whitespace characters
split(s) ==
    SelectSeq(Pieces(s, {i \in 1..Len(s) : s[i] \in Whitespace}, 1, Len(s)),
              LAMBDA piece : piece # <<>>)

\* str.split(sep) for a separator of one character
SplitAt(sep, s) == Pieces(s, {i \in 1..Len(s) : s[i] = sep}, 1, Len(s))

\* ' '.join(words)
RECURSIVE JoinWords(_)
JoinWords(words) ==
    IF words = <<>> THEN <<>>
    ELSE IF Len(words) = 1 THEN words[1]
    ELSE words[1] \o <<" ">> \o JoinWords(Tail(words))

\* "\n".join(lines)
RECURSIVE JoinLines(_)
JoinLines(lines) ==
    IF lines = <<>> THEN <<>>
    ELSE IF Len(lines) = 1 THEN lines[1]
    ELSE lines[1] \o <<"\n">> \o JoinLines(Tail(lines))

----------------------------------------------------------------------------
(* extract_job_title.  The templates are searched with re.IGNORECASE, under *)
(* which [A-Z] matches a letter of either case, and re.MULTILINE.           *)

\* the end of the lazy capture ([A-Z][a-zA-Z\s]+?) that starts at position c:
\* the first position e, at least one character on, up to which the
\* characters are letters or whitespace and after which Term matches; 0 when
\* there is none
LazyEnd(s, c, Term(_)) ==
    IF c > Len(s) \/ s[c] \notin Letters THEN 0
    ELSE LET ends == {e \in (c + 1)..(c + Run(TitleChars, s, c - 1) - 1) : Term(e)}
         IN IF ends = {} THEN 0 ELSE Min(ends)

\* (?:\s+at|\s+to|\.|,) after position e
HiringEnd(s, e) ==
    \/ /\ SpaceRun(s, e) >= 1
       /\ \/ AtIgnoreCase(<<"a", "t">>, s, e + SpaceRun(s, e))
          \/ AtIgnoreCase(<<"t", "o">>, s, e + SpaceRun(s, e))
    \/ e + 1 <= Len(s) /\ s[e + 1] \in {".", ","}

\* the position at which the capture of 'hiring\s+(?:a|an)\s+(...' starts for
\* the occurrence of 'hiring' after offset i; 0 when the text does not go on
\* that way
HiringCaptureStart(s, i) ==
    LET a == i + 6 + SpaceRun(s, i + 6) + 1
        n == IF AtIgnoreCase(<<"n">>, s, a) THEN 1 ELSE 0
    IN IF /\ AtIgnoreCase(<<"h", "i", "r", "i", "n", "g">>, s, i)
          /\ SpaceRun(s, i + 6) >= 1
          /\ AtIgnoreCase(<<"a">>, s, a - 1)
          /\ SpaceRun(s, a + n) >= 1
       THEN a + n + SpaceRun(s, a + n) + 1
       ELSE 0

\* group 1 of the leftmost match of the template 'hiring a/an X', <<>> when
\* the template does not match
HiringCapture(s) ==
    LET starts == {i \in 0..Len(s) :
                      /\ HiringCaptureStart(s, i) # 0
                      /\ LazyEnd(s, HiringCaptureStart(s, i),
                                 LAMBDA e : HiringEnd(s, e)) # 0}
    IN IF starts = {} THEN <<>>
       ELSE LET c == HiringCaptureStart(s, Min(starts))
            IN SubSeq(s, c, LazyEnd(s, c, LAMBDA e : HiringEnd(s, e)))

\* \s*[-U+2013]\s*[A-Z] after position e
DashEnd(s, e) ==
    LET d == e + SpaceRun(s, e) + 1
    IN /\ d <= Len(s)
       /\ s[d] \in {"-", "U+2013"}
       /\ d + SpaceRun(s, d) + 1 <= Len(s)
       /\ s[d + SpaceRun(s, d) + 1] \in Letters

\* ^ under re.MULTILINE
LineStart(s, c) == c = 1 \/ (c - 1 <= Len(s) /\ s[c - 1] = "\n")

\* group 1 of the leftmost match of the template 'X - Company'
DashCapture(s) ==
    LET starts == {c \in 1..Len(s) :
                      /\ LineStart(s, c)
                      /\ LazyEnd(s, c, LAMBDA e : DashEnd(s, e)) # 0}
    IN IF starts = {} THEN <<>>
       ELSE SubSeq(s, Min(starts),
                   LazyEnd(s, Min(starts), LAMBDA e : DashEnd(s, e)))

\* group 1 of the leftmost match of 'label\s*([A-Z][a-zA-Z\s]+)'
LabelCapture(label, s) ==
    LET Start(i) == i + Len(label) + SpaceRun(s, i + Len(label)) + 1
        starts == {i \in 0..Len(s) :
                      /\ AtIgnoreCase(label, s, i)
                      /\ Start(i) <= Len(s)
                      /\ s[Start(i)] \in Letters
                      /\ Run(TitleChars, s, Start(i)) >= 1}
    IN IF starts = {} THEN <<>>
       ELSE SubSeq(s, Start(Min(starts)),
                   Start(Min(starts)) + Run(TitleChars, s, Start(Min(starts))))

\* group 1 of the match of each template, in the order of the list patterns
TitleCaptures(s) ==
    <<HiringCapture(s),
      DashCapture(s),
      LabelCapture(<<"P", "o", "s", "i", "t", "i", "o", "n", ":">>, s),
      LabelCapture(<<"R", "o", "l", "e", ":">>, s),
      LabelCapture(<<"J", "o", "b", " ", "T", "i", "t", "l", "e", ":">>, s),
      LabelCapture(<<"T", "i", "t", "l", "e", ":">>, s)>>

UnknownTitle == <<"U", "n", "k", "n", "o", "w", "n", " ", "T", "i", "t", "l", "e">>

\* w[0].isupper() for every word w with w[0].isalpha()
AllCapitalized(words) ==
    \A i \in 1..Len(words) : words[i][1] \in Letters => words[i][1] \in UpperLetters

\* the fallback loop over first_para.split('.')
RECURSIVE FallbackTitle(_)
FallbackTitle(sents) ==
    IF sents = <<>> THEN UnknownTitle
    ELSE LET words == split(Head(sents))
         IN IF Len(words) >= 2 /\ Len(words) <= 5 /\ AllCapitalized(words)
            THEN JoinWords(words)
            ELSE FallbackTitle(Tail(sents))

\* the loop over the templates: the capture of every template that matched
\* is still to be tried
RECURSIVE TitleLoopAnyLength(_, _)
TitleLoopAnyLength(captures, s) ==
    IF captures = <<>> THEN FallbackTitle(SplitAt(".", Prefix(s, 500)))
    ELSE IF Head(captures) # <<>>
    THEN JoinWords(split(Head(captures)))
    ELSE TitleLoopAnyLength(Tail(captures), s)

\* the loop over the templates
RECURSIVE TitleLoop(_, _)
TitleLoop(captures, s) ==
    IF captures = <<>> THEN FallbackTitle(SplitAt(".", Prefix(s, 500)))
    ELSE IF Head(captures) # <<>> /\ Len(split(Head(captures))) <= 6
    THEN JoinWords(split(Head(captures)))
    ELSE TitleLoop(Tail(captures), s)

\* extract_job_title over the text s
ExtractJobTitle(s) == TitleLoop(TitleCaptures(s), s)

----------------------------------------------------------------------------
(* extract_technical_skills *)

\* the alternatives of each pattern of SKILL_PATTERNS, in the order of the dict
SKILL_PATTERNS ==
    <<[category |-> "programming",
       terms |->
           <<<<"P", "y", "t", "h", "o", "n">>,
             <<"J", "a", "v", "a">>,
             <<"J", "a", "v", "a", "S", "c", "r", "i", "p", "t">>,
             <<"R">>,
             <<"S", "Q", "L">>,
             <<"C", "+", "+">>,
             <<"S", "c", "a", "l", "a">>,
             <<"R", "u", "b", "y">>,
             <<"G", "o">>,
             <<"T", "y", "p", "e", "S", "c", "r", "i", "p", "t">>>>],
      [category |-> "tools",
       terms |->
           <<<<"T", "a", "b", "l", "e", "a", "u">>,
             <<"P", "o", "w", "e", "r", " ", "B", "I">>,
             <<"E", "x", "c", "e", "l">>,
             <<"J", "I", "R", "A">>,
             <<"G", "i", "t">>,
             <<"D", "o", "c", "k", "e", "r">>,
             <<"A", "W", "S">>,
             <<"A", "z", "u", "r", "e">>,
             <<"G", "C", "P">>,
             <<"K", "u", "b", "e", "r", "n", "e", "t", "e", "s">>,
             <<"J", "e", "n", "k", "i", "n", "s">>>>],
      [category |-> "frameworks",
       terms |->
           <<<<"R", "e", "a", "c", "t">>,
             <<"A", "n", "g", "u", "l", "a", "r">>,
             <<"D", "j", "a", "n", "g", "o">>,
             <<"F", "l", "a", "s", "k">>,
             <<"P", "a", "n", "d", "a", "s">>,
             <<"N", "u", "m", "P", "y">>,
             <<"T", "e", "n", "s", "o", "r", "F", "l", "o", "w">>,
             <<"P", "y", "T", "o", "r", "c", "h">>,
             <<"S", "p", "a", "r", "k">>>>],
      [category |-> "databases",
       terms |->
           <<<<"P", "o", "s", "t", "g", "r", "e", "S", "Q", "L">>,
             <<"M", "y", "S", "Q", "L">>,
             <<"M", "o", "n", "g", "o", "D", "B">>,
             <<"R", "e", "d", "i", "s">>,
             <<"C", "a", "s", "s", "a", "n", "d", "r", "a">>,
             <<"O", "r", "a", "c", "l", "e">>,
             <<"S", "n", "o", "w", "f", "l", "a", "k", "e">>,
             <<"R", "e", "d", "s", "h", "i", "f", "t">>>>],
      [category |-> "methodologies",
       terms |->
           <<<<"A", "g", "i", "l", "e">>,
             <<"S", "c", "r", "u", "m">>,
             <<"K", "a", "n", "b", "a", "n">>,
             <<"W", "a", "t", "e", "r", "f", "a", "l", "l">>,
             <<"D", "e", "v", "O", "p", "s">>,
             <<"C", "I", "/", "C", "D">>>>]>>

\* the characters of the model in the order of their code points
CodePoints ==
    <<"\n", " ", "!", "'", "*", "+", ",", "-", ".", "/", "0", "1", "2", "3",
      "4", "5", "6", "7", "8", "9", ":", "?", "A", "B", "C", "D", "E",
      "F", "G", "H", "I", "J", "K", "L", "M", "N", "O", "P", "Q", "R",
      "S", "T", "U", "V", "W", "X", "Y", "Z", "a", "b", "c", "d", "e",
      "f", "g", "h", "i", "j", "k", "l", "m", "n", "o", "p", "q", "r",
      "s", "t", "u", "v", "w", "x", "y", "z", "U+2013", "U+2022">>

Ord(c) == CHOOSE i \in 1..Len(CodePoints) : CodePoints[i] = c

\* a < b for two str
StrLess(a, b) ==
    \E i \in 1..Len(b) :
        /\ i - 1 <= Len(a)
        /\ \A j \in 1..(i - 1) : a[j] = b[j]
        /\ i > Len(a) \/ Ord(a[i]) < Ord(b[i])

\* sorted(list(S)) for a set S of str
RECURSIVE Sorted(_)
Sorted(S) ==
    IF S = {} THEN <<>>
    ELSE LET least == CHOOSE a \in S : \A b \in S \ {a} : StrLess(a, b)
         IN <<least>> \o Sorted(S \ {least})

\* the first alternative of \b(terms)\b that matches at offset i of s, 0 when
\* none does
MatchingTerm(terms, s, i) ==
    LET matching == {k \in 1..Len(terms) :
                        /\ AtIgnoreCase(terms[k], s, i)
                        /\ Boundary(s, i + Len(terms[k]))}
    IN IF Boundary(s, i) /\ matching # {} THEN Min(matching) ELSE 0

\* {match.group(0) for match in re.finditer(pattern, s, re.IGNORECASE)}, the
\* matches from offset i on
RECURSIVE FindIter(_, _, _)
FindIter(terms, s, i) ==
    LET starts == {j \in i..(Len(s) - 1) : MatchingTerm(terms, s, j) # 0}
    IN IF starts = {} THEN {}
       ELSE LET j == Min(starts)
                n == Len(terms[MatchingTerm(terms, s, j)])
            IN {SubSeq(s, j + 1, j + n)} \cup FindIter(terms, s, j + n)

\* extract_technical_skills over the text s
ExtractTechnicalSkills(s) ==
    Sorted(UNION {FindIter(SKILL_PATTERNS[c].terms, s, 0) :
                     c \in 1..Len(SKILL_PATTERNS)})

----------------------------------------------------------------------------
(* extract_required_vs_preferred and _extract_bullets *)

REQUIRED_MARKERS ==
    <<<<"r", "e", "q", "u", "i", "r", "e", "d">>,
      <<"m", "u", "s", "t", " ", "h", "a", "v", "e">>,
      <<"e", "s", "s", "e", "n", "t", "i", "a", "l">>,
      <<"m", "a", "n", "d", "a", "t", "o", "r", "y">>,
      <<"m", "u", "s", "t">>,
      <<"n", "e", "e", "d">>>>

PREFERRED_MARKERS ==
    <<<<"p", "r", "e", "f", "e", "r", "r", "e", "d">>,
      <<"n", "i", "c", "e", " ", "t", "o", " ", "h", "a", "v", "e">>,
      <<"d", "e", "s", "i", "r", "a", "b", "l", "e">>,
      <<"b", "o", "n", "u", "s">>,
      <<"p", "l", "u", "s">>,
      <<"a", "d", "v", "a", "n", "t", "a", "g", "e">>>>

\* s.index(pattern), as an offset
Index(pattern, s) ==
    Min({i \in 0..(Len(s) - Len(pattern)) : SubSeq(s, i + 1, i + Len(pattern)) = pattern})

\* self.jd_text[start:end] for the first occurrence of the marker
Window(marker, s) ==
    LET start == Index(marker, lower(s))
        end == Min({start + 500, Len(s)})
    IN SubSeq(s, start + 1, end)

\* the windows of the markers that are in the text, in the order of the markers
RECURSIVE Windows(_, _)
Windows(markers, s) ==
    IF markers = <<>> THEN <<>>
    ELSE IF Contains(Head(markers), lower(s))
    THEN <<Window(Head(markers), s)>> \o Windows(Tail(markers), s)
    ELSE Windows(Tail(markers), s)

\* section += window, for every window
RECURSIVE Concatenation(_)
Concatenation(windows) ==
    IF windows = <<>> THEN <<>> ELSE Head(windows) \o Concatenation(Tail(windows))

\* [U+2022\-\*]
BulletChars == {"U+2022", "-", "*"}

\* the last position of the line of s that position c is on
LineEnd(s, c) == c + Run({ch \in {s[i] : i \in 1..Len(s)} : ch # "\n"}, s, c)

\* where group 1 of \s*(.+?)(?=\n|$) starts after position b: \s* gives back
\* whitespace until a character other than a newline follows; 0 when the
\* pattern does not match
CaptureStart(s, b) ==
    LET starts == {c \in (b + 1)..(b + SpaceRun(s, b) + 1) :
                      c <= Len(s) /\ s[c] # "\n"}
    IN IF starts = {} THEN 0 ELSE CHOOSE c \in starts : \A d \in starts : d <= c

\* the position at which the bullet mark [U+2022\-\*] that starts at j ends
MarkEnd(s, j) == IF s[j] \in BulletChars THEN j ELSE 0

\* the position at which the mark \d+\. that starts at j ends
NumberEnd(s, j) ==
    IF j + Run(Digits, s, j - 1) <= Len(s) /\ Run(Digits, s, j - 1) >= 1
          /\ s[j + Run(Digits, s, j - 1)] = "."
    THEN j + Run(Digits, s, j - 1) ELSE 0

\* [m.group(1).strip() for m in re.finditer(pattern, s, re.MULTILINE)], the
\* matches that start at position j or later
RECURSIVE BulletMatches(_, _, _)
BulletMatches(End(_, _), s, j) ==
    LET starts == {k \in j..Len(s) : End(s, k) # 0 /\ CaptureStart(s, End(s, k)) # 0}
    IN IF starts = {} THEN <<>>
       ELSE LET c == CaptureStart(s, End(s, Min(starts)))
            IN <<strip(SubSeq(s, c, LineEnd(s, c)))>>
                   \o BulletMatches(End, s, LineEnd(s, c) + 1)

\* _extract_bullets(s)
ExtractBullets(s) == BulletMatches(MarkEnd, s, 1) \o BulletMatches(NumberEnd, s, 1)

\* extract_required_vs_preferred over the text s
ExtractRequiredVsPreferred(s) ==
    [required |-> ExtractBullets(Concatenation(Windows(REQUIRED_MARKERS, s))),
     preferred |-> ExtractBullets(Concatenation(Windows(PREFERRED_MARKERS, s)))]

----------------------------------------------------------------------------
(* extract_verbatim_phrases *)

skill_indicators ==
    <<<<"a", "b", "i", "l", "i", "t", "y", " ", "t", "o">>,
      <<"e", "x", "p", "e", "r", "i", "e", "n", "c", "e", " ", "w", "i", "t", "h">>,
      <<"p", "r", "o", "f", "i", "c", "i", "e", "n", "t", " ", "i", "n">>,
      <<"k", "n", "o", "w", "l", "e", "d", "g", "e", " ", "o", "f">>,
      <<"s", "k", "i", "l", "l", "e", "d", " ", "i", "n">>,
      <<"e", "x", "p", "e", "r", "t", "i", "s", "e", " ", "i", "n">>,
      <<"s", "t", "r", "o", "n", "g", " ", "s", "k", "i", "l", "l", "s">>,
      <<"d", "e", "m", "o", "n", "s", "t", "r", "a", "t", "e", "d", " ", "e", "x",
  "p", "e", "r", "i", "e", "n", "c", "e">>,
      <<"p", "r", "o", "v", "e", "n", " ", "a", "b", "i", "l", "i", "t", "y">>>>

\* does the separator [.!?]\s+ begin at position p of s
SentenceEnd(s, p) == s[p] \in {".", "!", "?"} /\ SpaceRun(s, p) >= 1

\* re.split(r'[.!?]\s+', s)
RECURSIVE SplitSentences(_)
SplitSentences(s) ==
    LET ends == {p \in 1..Len(s) : SentenceEnd(s, p)}
    IN IF ends = {} THEN <<s>>
       ELSE <<SubSeq(s, 1, Min(ends) - 1)>>
                \o SplitSentences(SubSeq(s, Min(ends) + SpaceRun(s, Min(ends)) + 1, Len(s)))

\* the test of the loop on a stripped sentence, whatever its length
QualifiesAnyLength(sent) ==
    /\ sent # <<>>
    /\ \E i \in 1..Len(skill_indicators) : Contains(skill_indicators[i], lower(sent))

\* the test of the loop on a stripped sentence, with the default lengths
Qualifies(sent) ==
    /\ sent # <<>>
    /\ Len(split(sent)) >= 10
    /\ Len(split(sent)) <= 30
    /\ \E i \in 1..Len(skill_indicators) : Contains(skill_indicators[i], lower(sent))

\* the list phrases after the loop over sentences
RECURSIVE Phrases(_)
Phrases(sentences) ==
    IF sentences = <<>> THEN <<>>
    ELSE IF Qualifies(strip(Head(sentences)))
    THEN <<strip(Head(sentences))>> \o Phrases(Tail(sentences))
    ELSE Phrases(Tail(sentences))

\* extract_verbatim_phrases() over the text s
ExtractVerbatimPhrases(s) == Prefix(Phrases(SplitSentences(s)), 10)

----------------------------------------------------------------------------
(* analyze_structure of the parser, and the StructureAnalyzer.  A line is   *)
(* matched after line.strip().                                              *)

\* the match of ^([A-Z][A-Z\s]+):?$ on the stripped line: <<group 1>>, or <<>>
\* when there is none
AllCapsHeader(line) ==
    LET body == IF line # <<>> /\ line[Len(line)] = ":"
                THEN SubSeq(line, 1, Len(line) - 1) ELSE line
    IN IF /\ Len(body) >= 2
          /\ body[1] \in UpperLetters
          /\ \A k \in 2..Len(body) : body[k] \in UpperLetters \cup Whitespace
       THEN <<body>> ELSE <<>>

\* the match of ^([A-Z][a-z\s]+):$ on the stripped line
TitleCaseHeader(line) ==
    IF /\ Len(line) >= 3
       /\ line[Len(line)] = ":"
       /\ line[1] \in UpperLetters
       /\ \A k \in 2..(Len(line) - 1) : line[k] \in LowerLetters \cup Whitespace
    THEN <<SubSeq(line, 1, Len(line) - 1)>> ELSE <<>>

\* the match of ^\*\*([^*]+)\*\* on the stripped line
BoldHeader(line) ==
    LET n == Run({c \in {line[i] : i \in 1..Len(line)} : c # "*"}, line, 2)
    IN IF /\ Len(line) >= 5
          /\ line[1] = "*" /\ line[2] = "*"
          /\ n >= 1
          /\ n + 4 <= Len(line)
          /\ line[n + 3] = "*" /\ line[n + 4] = "*"
       THEN <<SubSeq(line, 3, n + 2)>> ELSE <<>>

\* match.group(1).strip() for every pattern of header_patterns that matches
\* the line, in the order of the list
HeaderMatches(line) ==
    LET matches == AllCapsHeader(strip(line)) \o TitleCaseHeader(strip(line))
                       \o BoldHeader(strip(line))
    IN [k \in 1..Len(matches) |-> strip(matches[k])]

\* group 1 of [U+2022\-\*]\s*(.+) on the stripped line, stripped; <<>> without
\* a match
BulletText(line) ==
    IF strip(line) # <<>> /\ strip(line)[1] \in BulletChars
    THEN strip(Tail(strip(line))) ELSE <<>>

\* the loop over j: the bullets of the lines j .. stop, up to a line that is
\* not empty, is no bullet and does not begin with a capital letter
RECURSIVE BulletsUnder(_, _, _)
BulletsUnder(lines, j, stop) ==
    IF j > stop THEN <<>>
    ELSE IF BulletText(lines[j]) # <<>>
    THEN <<BulletText(lines[j])>> \o BulletsUnder(lines, j + 1, stop)
    ELSE IF strip(lines[j]) # <<>> /\ strip(lines[j])[1] \notin UpperLetters
    THEN <<>>
    ELSE BulletsUnder(lines, j + 1, stop)

ResponsibilitiesHeader(header) ==
    \/ Contains(<<"r", "e", "s", "p", "o", "n", "s", "i", "b", "i", "l", "i", "t">>, lower(header))
    \/ Contains(<<"w", "h", "a", "t", " ", "y", "o", "u">>, lower(header))

RequirementsHeader(header) ==
    /\ ~ResponsibilitiesHeader(header)
    /\ \/ Contains(<<"r", "e", "q", "u", "i", "r", "e", "m", "e", "n", "t">>, lower(header))
       \/ Contains(<<"a", "b", "o", "u", "t", " ", "y", "o", "u">>, lower(header))
       \/ Contains(<<"q", "u", "a", "l", "i", "f", "i", "c", "a", "t", "i", "o", "n">>, lower(header))

\* what the header matches of line i (counted from 1) add to the list of the
\* headers that Classified accepts
BulletsOfLine(lines, i, Classified(_)) ==
    Concatenation([k \in 1..Len(HeaderMatches(lines[i])) |->
        IF Classified(HeaderMatches(lines[i])[k])
        THEN BulletsUnder(lines, i + 1, Min({i + 19, Len(lines)}))
        ELSE <<>>])

\* analyze_structure over the text s
AnalyzeStructure(s) ==
    LET lines == SplitAt("\n", s)
    IN [sections |->
            Concatenation([i \in 1..Len(lines) |-> HeaderMatches(lines[i])]),
        responsibilities |->
            Concatenation([i \in 1..Len(lines) |->
                              BulletsOfLine(lines, i, ResponsibilitiesHeader)]),
        requirements |->
            Concatenation([i \in 1..Len(lines) |->
                              BulletsOfLine(lines, i, RequirementsHeader)])]

\* StructureAnalyzer.identify_sections: the first pattern that matches a line
\* names a section, which ends before the next one
IdentifySections(s) ==
    LET lines == SplitAt("\n", s)
        headers == {i \in 1..Len(lines) : HeaderMatches(lines[i]) # <<>>}
        EndLine(i) == IF \E j \in headers : j > i
                      THEN Min({j \in headers : j > i}) - 2
                      ELSE Len(lines) - 1
    IN Concatenation([i \in 1..Len(lines) |->
           IF i \in headers
           THEN <<[name |-> HeaderMatches(lines[i])[1], start_line |-> i - 1,
                   end_line |-> EndLine(i), content |-> <<>>]>>
           ELSE <<>>])

responsibility_markers ==
    <<<<"r", "e", "s", "p", "o", "n", "s", "i", "b", "i", "l", "i", "t", "i", "e",
  "s">>,
      <<"w", "h", "a", "t", " ", "y", "o", "u">>,
      <<"k", "e", "y", " ", "r", "e", "s", "p", "o", "n", "s", "i", "b", "i", "l",
  "i", "t", "i", "e", "s">>,
      <<"y", "o", "u", " ", "w", "i", "l", "l">>,
      <<"d", "u", "t", "i", "e", "s">>,
      <<"r", "o", "l", "e", " ", "i", "n", "c", "l", "u", "d", "e", "s">>>>

requirement_markers ==
    <<<<"r", "e", "q", "u", "i", "r", "e", "m", "e", "n", "t", "s">>,
      <<"a", "b", "o", "u", "t", " ", "y", "o", "u">>,
      <<"q", "u", "a", "l", "i", "f", "i", "c", "a", "t", "i", "o", "n", "s">>,
      <<"m", "u", "s", "t", " ", "h", "a", "v", "e">>,
      <<"e", "s", "s", "e", "n", "t", "i", "a", "l">>,
      <<"r", "e", "q", "u", "i", "r", "e", "d">>>>

\* any(marker in line_lower for marker in markers)
AnyMarker(markers, line) ==
    \E k \in 1..Len(markers) : Contains(markers[k], lower(line))

\* re.match(r'^[A-Z][A-Z\s]+:', line.strip())
AllCapsPrefix(line) ==
    LET ls == strip(line)
        n == Run(UpperLetters \cup Whitespace, ls, 1)
    IN /\ ls # <<>>
       /\ ls[1] \in UpperLetters
       /\ n >= 1
       /\ n + 2 <= Len(ls)
       /\ ls[n + 2] = ":"

\* the loop of extract_responsibilities over the lines that are left;
\* in_section is in_responsibilities_section
RECURSIVE ResponsibilitiesLoop(_, _)
ResponsibilitiesLoop(lines, in_section) ==
    IF lines = <<>> THEN <<>>
    ELSE IF AnyMarker(responsibility_markers, Head(lines))
    THEN ResponsibilitiesLoop(Tail(lines), TRUE)
    ELSE IF ~in_section THEN ResponsibilitiesLoop(Tail(lines), FALSE)
    ELSE IF /\ AllCapsPrefix(Head(lines))
            /\ ~Contains(<<"r", "e", "s", "p", "o", "n", "s", "i", "b", "i", "l", "i", "t">>, lower(Head(lines)))
    THEN ResponsibilitiesLoop(Tail(lines), FALSE)
    ELSE IF BulletText(Head(lines)) # <<>>
    THEN <<BulletText(Head(lines))>> \o ResponsibilitiesLoop(Tail(lines), TRUE)
    ELSE ResponsibilitiesLoop(Tail(lines), TRUE)

\* the loop of extract_requirements; a line with a marker never reaches the
\* test for a new section header
RECURSIVE RequirementsLoop(_, _)
RequirementsLoop(lines, in_section) ==
    IF lines = <<>> THEN <<>>
    ELSE IF AnyMarker(requirement_markers, Head(lines))
    THEN RequirementsLoop(Tail(lines), TRUE)
    ELSE IF ~in_section THEN RequirementsLoop(Tail(lines), FALSE)
    ELSE IF AllCapsPrefix(Head(lines))
    THEN RequirementsLoop(Tail(lines), FALSE)
    ELSE IF BulletText(Head(lines)) # <<>>
    THEN <<BulletText(Head(lines))>> \o RequirementsLoop(Tail(lines), TRUE)
    ELSE RequirementsLoop(Tail(lines), TRUE)

\* StructureAnalyzer.extract_responsibilities
ExtractResponsibilities(s) == ResponsibilitiesLoop(SplitAt("\n", s), FALSE)

\* StructureAnalyzer.extract_requirements
ExtractRequirements(s) == RequirementsLoop(SplitAt("\n", s), FALSE)

\* [s['name'] for s in sections]
SectionNames(sections) == [i \in 1..Len(sections) |-> sections[i].name]

\* StructureAnalyzer.get_structure_for_mirroring
GetStructureForMirroring(s) ==
    [main_sections |-> SectionNames(IdentifySections(s)),
     responsibilities |-> ExtractResponsibilities(s),
     requirements |-> ExtractRequirements(s)]

----------------------------------------------------------------------------
(* extract_company_values, calculate_keyword_density,                       *)
(* extract_experience_requirements, extract_all, export_keyword_checklist   *)

\* list(set(values)): the elements in the iteration order of the set, which
\* the hashes of the process fix
HashOrder(S, seed) ==
    IF seed = 0 THEN Sorted(S)
    ELSE [i \in 1..Cardinality(S) |-> Sorted(S)[Cardinality(S) + 1 - i]]

\* the n least elements of a set of numbers, ascending
RECURSIVE FirstN(_, _)
FirstN(S, n) ==
    IF n = 0 \/ S = {} THEN <<>>
    ELSE <<Min(S)>> \o FirstN(S \ {Min(S)}, n - 1)

value_markers ==
    <<<<"o", "u", "r", " ", "v", "a", "l", "u", "e", "s">>,
      <<"c", "o", "m", "p", "a", "n", "y", " ", "v", "a", "l", "u", "e", "s">>,
      <<"c", "o", "r", "e", " ", "v", "a", "l", "u", "e", "s">>,
      <<"w", "e", " ", "b", "e", "l", "i", "e", "v", "e">>,
      <<"o", "u", "r", " ", "c", "u", "l", "t", "u", "r", "e">>,
      <<"v", "a", "l", "u", "e", "s", " ", "w", "e">>>>

\* re.findall(r'\b([A-Z][a-z]+)\b', section)[:5]
CapitalizedWords(section) ==
    LET WordEnd(i) == i + Run(LowerLetters, section, i)
        starts == {i \in 1..Len(section) :
                      /\ section[i] \in UpperLetters
                      /\ Boundary(section, i - 1)
                      /\ WordEnd(i) > i
                      /\ Boundary(section, WordEnd(i))}
        first == FirstN(starts, 5)
    IN [k \in 1..Len(first) |-> SubSeq(section, first[k], WordEnd(first[k]))]

\* self.jd_text[start:start+500] for the first occurrence of the marker
ValueSection(marker, s) ==
    SubSeq(s, Index(marker, lower(s)) + 1,
           Min({Index(marker, lower(s)) + 500, Len(s)}))

\* the list values after the loop over the markers
RECURSIVE ValueWords(_, _)
ValueWords(markers, s) ==
    IF markers = <<>> THEN <<>>
    ELSE IF Contains(Head(markers), lower(s))
    THEN CapitalizedWords(ValueSection(Head(markers), s))
             \o ValueWords(Tail(markers), s)
    ELSE ValueWords(Tail(markers), s)

Elements(list) == {list[i] : i \in 1..Len(list)}

\* extract_company_values over the text s in a process of that hash seed
ExtractCompanyValues(s, seed) == HashOrder(Elements(ValueWords(value_markers, s)), seed)

stop_words ==
    {<<"t", "h", "a", "t">>,
     <<"t", "h", "i", "s">>,
     <<"w", "i", "t", "h">>,
     <<"f", "r", "o", "m">>,
     <<"h", "a", "v", "e">>,
     <<"w", "i", "l", "l">>,
     <<"w", "o", "u", "l", "d">>,
     <<"c", "o", "u", "l", "d">>,
     <<"s", "h", "o", "u", "l", "d">>}

\* where the matches of \b[a-z]{4,}\b begin in the lower-cased text t
DensityWordStarts(t) ==
    {i \in 1..Len(t) :
        /\ t[i] \in LowerLetters
        /\ Boundary(t, i - 1)
        /\ Run(LowerLetters, t, i - 1) >= 4
        /\ Boundary(t, i - 1 + Run(LowerLetters, t, i - 1))}

DensityWordAt(t, i) == SubSeq(t, i, i - 1 + Run(LowerLetters, t, i - 1))

\* Counter(words).most_common(n) for the words that begin at the positions
\* starts: by falling count, words of one count in the order of their first
\* occurrence
RECURSIVE MostCommon(_, _, _)
MostCommon(t, starts, n) ==
    IF n = 0 \/ starts = {} THEN <<>>
    ELSE LET Count(i) == Cardinality({j \in starts : DensityWordAt(t, j) = DensityWordAt(t, i)})
             First(i) == \A j \in starts : DensityWordAt(t, j) = DensityWordAt(t, i) => i <= j
             best == CHOOSE i \in starts :
                         /\ First(i)
                         /\ \A j \in starts :
                                \/ Count(j) < Count(i)
                                \/ Count(j) = Count(i) /\ i <= j
                                \/ ~First(j)
         IN <<<<DensityWordAt(t, best), Count(best)>>>>
                \o MostCommon(t, {j \in starts : DensityWordAt(t, j) # DensityWordAt(t, best)},
                              n - 1)

\* calculate_keyword_density over the text s, self.doc being None
CalculateKeywordDensity(s) ==
    MostCommon(lower(s),
               {i \in DensityWordStarts(lower(s)) :
                   DensityWordAt(lower(s), i) \notin stop_words},
               20)

\* where the match of EXPERIENCE_PATTERN that begins at position i ends, 0
\* when there is none:
\* (\d+)\+?\s*(?:years?|yrs?)\s*(?:of\s*)?(?:experience|exp)?
ExperienceEnd(s, i) ==
    LET digits == i - 1 + Run(Digits, s, i - 1)
        plus == IF AtIgnoreCase(<<"+">>, s, digits) THEN digits + 1 ELSE digits
        unit == plus + SpaceRun(s, plus)
        years == IF AtIgnoreCase(<<"y", "e", "a", "r", "s">>, s, unit) THEN unit + 5
                 ELSE IF AtIgnoreCase(<<"y", "e", "a", "r">>, s, unit) THEN unit + 4
                 ELSE IF AtIgnoreCase(<<"y", "r", "s">>, s, unit) THEN unit + 3
                 ELSE IF AtIgnoreCase(<<"y", "r">>, s, unit) THEN unit + 2
                 ELSE 0
        gap == years + SpaceRun(s, years)
        of == IF AtIgnoreCase(<<"o", "f">>, s, gap)
              THEN gap + 2 + SpaceRun(s, gap + 2) ELSE gap
    IN IF digits < i \/ years = 0 THEN 0
       ELSE IF AtIgnoreCase(<<"e", "x", "p", "e", "r", "i", "e", "n", "c", "e">>, s, of) THEN of + 10
       ELSE IF AtIgnoreCase(<<"e", "x", "p">>, s, of) THEN of + 3
       ELSE of

\* where the match of word\s+in\s+([A-Z][a-z\s]+) that begins at position i
\* ends, 0 when there is none; letter case is ignored
DomainEnd(word, s, i) ==
    LET in == i - 1 + Len(word) + SpaceRun(s, i - 1 + Len(word))
        name == in + 2 + SpaceRun(s, in + 2)
    IN IF /\ AtIgnoreCase(word, s, i - 1)
          /\ SpaceRun(s, i - 1 + Len(word)) >= 1
          /\ AtIgnoreCase(<<"i", "n">>, s, in)
          /\ SpaceRun(s, in + 2) >= 1
          /\ name + 1 <= Len(s)
          /\ s[name + 1] \in Letters
          /\ Run(TitleChars, s, name + 1) >= 1
       THEN name + 1 + Run(TitleChars, s, name + 1)
       ELSE 0

\* [match.group(0) for match in re.finditer(pattern, s, re.IGNORECASE)], the
\* matches that begin at position i or later; End gives the end of a match
RECURSIVE Matches(_, _, _)
Matches(End(_, _), s, i) ==
    LET starts == {j \in i..Len(s) : End(s, j) # 0}
    IN IF starts = {} THEN <<>>
       ELSE <<SubSeq(s, Min(starts), End(s, Min(starts)))>>
                \o Matches(End, s, End(s, Min(starts)) + 1)

\* the list requirements before it is made a set
ExperienceMatches(s) ==
    Matches(ExperienceEnd, s, 1)
        \o Matches(LAMBDA t, i : DomainEnd(<<"e", "x", "p", "e", "r", "i", "e", "n", "c", "e">>, t, i), s, 1)
        \o Matches(LAMBDA t, i : DomainEnd(<<"b", "a", "c", "k", "g", "r", "o", "u", "n", "d">>, t, i), s, 1)

\* extract_experience_requirements over the text s
ExtractExperienceRequirements(s, seed) == HashOrder(Elements(ExperienceMatches(s)), seed)

\* extract_all if it left out the key of the experience requirements when
\* none are found
ExtractAllFoundOnly(s, seed) ==
    LET required_preferred == ExtractRequiredVsPreferred(s)
    IN IF ExtractExperienceRequirements(s, seed) = <<>>
       THEN [job_title |-> ExtractJobTitle(s),
             technical_skills |-> ExtractTechnicalSkills(s),
             required_skills |-> required_preferred.required,
             preferred_skills |-> required_preferred.preferred,
             tools_technologies |-> ExtractTechnicalSkills(s),
             verbatim_phrases |-> ExtractVerbatimPhrases(s),
             company_values |-> ExtractCompanyValues(s, seed),
             structure |-> AnalyzeStructure(s),
             keyword_density |-> CalculateKeywordDensity(s)]
       ELSE [job_title |-> ExtractJobTitle(s),
             technical_skills |-> ExtractTechnicalSkills(s),
             required_skills |-> required_preferred.required,
             preferred_skills |-> required_preferred.preferred,
             tools_technologies |-> ExtractTechnicalSkills(s),
             verbatim_phrases |-> ExtractVerbatimPhrases(s),
             company_values |-> ExtractCompanyValues(s, seed),
             structure |-> AnalyzeStructure(s),
             keyword_density |-> CalculateKeywordDensity(s),
             experience_requirements |-> ExtractExperienceRequirements(s, seed)]

\* extract_all over the text s in a process of that hash seed
ExtractAll(s, seed) ==
    LET required_preferred == ExtractRequiredVsPreferred(s)
    IN [job_title |-> ExtractJobTitle(s),
        technical_skills |-> ExtractTechnicalSkills(s),
        required_skills |-> required_preferred.required,
        preferred_skills |-> required_preferred.preferred,
        tools_technologies |-> ExtractTechnicalSkills(s),
        verbatim_phrases |-> ExtractVerbatimPhrases(s),
        company_values |-> ExtractCompanyValues(s, seed),
        structure |-> AnalyzeStructure(s),
        keyword_density |-> CalculateKeywordDensity(s),
        experience_requirements |-> ExtractExperienceRequirements(s, seed)]

\* the dict export_keyword_checklist makes of an analysis
KeywordChecklist(a) ==
    ("Required Skills" :> a.required_skills)
        @@ ("Preferred Skills" :> a.preferred_skills)
        @@ ("Technical Skills" :> a.technical_skills)
        @@ ("Tools & Technologies" :> a.tools_technologies)
        @@ ("Company Values" :> a.company_values)
        @@ ("Key Phrases" :> Prefix(a.verbatim_phrases, 5))

----------------------------------------------------------------------------
(* The texts of the job descriptions *)

\* the lines the texts are put together from
JdLines ==
    <<<<"R", "E", "S", "P", "O", "N", "S", "I", "B", "I", "L", "I", "T", "I", "E",
  "S", ":">>,
      <<"R", "E", "Q", "U", "I", "R", "E", "M", "E", "N", "T", "S", ":">>,
      <<"-", " ", "S", "Q", "L">>,
      <<"a", "p", "p", "l", "y", " ", "n", "o", "w">>>>

\* the sentence of test_job_title_extraction
HiringSentence ==
    <<"W", "e", "'", "r", "e", " ", "h", "i", "r", "i", "n", "g", " ", "a",
      " ", "S", "e", "n", "i", "o", "r", " ", "D", "a", "t", "a", " ",
      "A", "n", "a", "l", "y", "s", "t", " ", "t", "o", " ", "j", "o",
      "i", "n", " ", "o", "u", "r", " ", "t", "e", "a", "m", ".">>

\* a text of lower-case words that the first template matches
LowerCaseHiring ==
    <<"w", "e", " ", "a", "r", "e", " ", "h", "i", "r", "i", "n", "g", " ",
      "a", " ", "d", "a", "t", "a", " ", "a", "n", "a", "l", "y", "s",
      "t", " ", "t", "o", " ", "j", "o", "i", "n", " ", "u", "s">>

\* a text of lower-case words that the second template matches
LowerCaseDash ==
    <<"j", "o", "i", "n", " ", "o", "u", "r", " ", "w", "e", "l", "l", "-",
      "b", "e", "i", "n", "g", " ", "t", "e", "a", "m">>

\* a text of lower-case words that no template matches
LowerCaseText ==
    <<"j", "o", "i", "n", " ", "o", "u", "r", " ", "t", "e", "a", "m">>

\* the first template captures seven words, the fourth two
LongHiring ==
    <<"w", "e", " ", "a", "r", "e", " ", "h", "i", "r", "i", "n", "g", " ",
      "a", " ", "b", " ", "c", " ", "d", " ", "e", " ", "f", " ", "g",
      " ", "h", " ", "t", "o", " ", "h", "e", "l", "p", "\n", "R", "o",
      "l", "e", ":", " ", "D", "a", "t", "a", " ", "E", "n", "g", "i",
      "n", "e", "e", "r">>

\* C++ stands as a whole word before a space
CppSkillText ==
    <<"E", "x", "p", "e", "r", "i", "e", "n", "c", "e", " ", "w", "i", "t",
      "h", " ", "C", "+", "+", " ", "r", "e", "q", "u", "i", "r", "e",
      "d">>

\* a vocabulary term in two spellings
MixedCaseSkills ==
    <<"T", "a", "b", "l", "e", "a", "u", " ", "a", "n", "d", " ", "p", "y",
      "t", "h", "o", "n", " ", "a", "n", "d", " ", "P", "y", "t", "h",
      "o", "n">>

\* the markers 'must have' and 'must' stand at the same place
MustHaveText ==
    <<"m", "u", "s", "t", " ", "h", "a", "v", "e", ":", "\n", "-", " ", "S",
      "Q", "L">>

\* the text of the scenario: one line, no bullets
ScenarioJd ==
    <<"W", "e", "'", "r", "e", " ", "h", "i", "r", "i", "n", "g", " ", "a",
      " ", "S", "e", "n", "i", "o", "r", " ", "D", "a", "t", "a", " ",
      "A", "n", "a", "l", "y", "s", "t", " ", "t", "o", " ", "j", "o",
      "i", "n", " ", "o", "u", "r", " ", "t", "e", "a", "m", ".", " ",
      "R", "e", "q", "u", "i", "r", "e", "d", ":", " ", "S", "Q", "L",
      ",", " ", "P", "y", "t", "h", "o", "n", ".", " ", "P", "r", "e",
      "f", "e", "r", "r", "e", "d", ":", " ", "A", "W", "S", ".">>

\* more than 500 characters follow the marker 'required'
LongRequiredText ==
    JoinLines(
        <<<<"S", "k", "i", "l", "l", "s", " ", "r", "e", "q", "u", "i", "r",
            "e", "d", ":">>>>
            \o [i \in 1..9 |->
                  <<"-", " ", "A", "n", "a", "l", "y", "s", "e", " ", "d",
                    "a", "t", "a", " ", "a", "n", "d", " ",
                    "p", "r", "e", "s", "e", "n", "t", " ",
                    "f", "i", "n", "d", "i", "n", "g", "s",
                    " ", "t", "o", " ", "t", "h", "e", " ",
                    "w", "i", "d", "e", "r", " ", "b", "u",
                    "s", "i", "n", "e", "s", "s", " ", "t",
                    "e", "a", "m", "s">>])

\* sentences of 9, 10, 12, 30 and 31 words; the one of 12 words has no indicator
SentenceLengths ==
    <<"P", "r", "o", "v", "e", "n", " ", "a", "b", "i", "l", "i", "t", "y",
      " ", "t", "o", " ", "b", "u", "i", "l", "d", " ", "a", "n", "d",
      " ", "t", "e", "s", "t", " ", "r", "e", "p", "o", "r", "t", "s",
      " ", "f", "o", "r", " ", "t", "e", "a", "m", "s", ".", " ", "S",
      "t", "r", "o", "n", "g", " ", "k", "n", "o", "w", "l", "e", "d",
      "g", "e", " ", "o", "f", " ", "d", "a", "t", "a", " ", "t", "o",
      "o", "l", "s", " ", "i", "s", " ", "n", "e", "e", "d", "e", "d",
      " ", "f", "o", "r", " ", "t", "h", "i", "s", " ", "r", "o", "l",
      "e", "!", " ", "Y", "o", "u", " ", "w", "i", "l", "l", " ", "b",
      "u", "i", "l", "d", " ", "a", "n", "d", " ", "t", "e", "s", "t",
      " ", "d", "a", "t", "a", " ", "r", "e", "p", "o", "r", "t", "s",
      " ", "f", "o", "r", " ", "a", "l", "l", " ", "o", "f", " ", "o",
      "u", "r", " ", "t", "e", "a", "m", "s", "?", "\n", "E", "x", "p",
      "e", "r", "i", "e", "n", "c", "e", " ", "W", "i", "t", "h", " ",
      "x", " ", "x", " ", "x", " ", "x", " ", "x", " ", "x", " ", "x",
      " ", "x", " ", "x", " ", "x", " ", "x", " ", "x", " ", "x", " ",
      "x", " ", "x", " ", "x", " ", "x", " ", "x", " ", "x", " ", "x",
      " ", "x", " ", "x", " ", "x", " ", "x", " ", "x", " ", "x", " ",
      "x", " ", "x", ".", " ", "E", "x", "p", "e", "r", "t", "i", "s",
      "e", " ", "i", "n", " ", "y", " ", "y", " ", "y", " ", "y", " ",
      "y", " ", "y", " ", "y", " ", "y", " ", "y", " ", "y", " ", "y",
      " ", "y", " ", "y", " ", "y", " ", "y", " ", "y", " ", "y", " ",
      "y", " ", "y", " ", "y", " ", "y", " ", "y", " ", "y", " ", "y",
      " ", "y", " ", "y", " ", "y", " ", "y", " ", "y", ".">>

\* eleven sentences of 11 words with an indicator
ElevenSentences ==
    Concatenation([i \in 1..11 |->
        <<"P", "r", "o", "v", "e", "n", " ", "a", "b", "i", "l", "i", "t",
          "y", " ", "t", "o", " ", "b", "u", "i", "l", "d", " ", "a",
          "n", "d", " ", "t", "e", "s", "t", " ", "d", "a", "t", "a",
          " ", "r", "e", "p", "o", "r", "t", "s", " ", "f", "o", "r",
          " ", "t", "e", "a", "m", " ">>
            \o <<CodePoints[Ord("A") + i - 1]>>
            \o (IF i < 11 THEN <<".", " ">> ELSE <<".">>)])

\* two classified headers with one bullet each
ExampleStructure ==
    <<"R", "E", "S", "P", "O", "N", "S", "I", "B", "I", "L", "I", "T", "I",
      "E", "S", ":", "\n", "-", " ", "a", "\n", "R", "E", "Q", "U", "I",
      "R", "E", "M", "E", "N", "T", "S", ":", "\n", "-", " ", "b">>

\* a header the parser does not classify, with a marker of the analyzer
KeyDuties ==
    <<"K", "e", "y", " ", "d", "u", "t", "i", "e", "s", ":", "\n", "-", " ",
      "a", "\n">>

\* a line that two header patterns match
TwoPatternHeader ==
    <<"A", " ", ":">>

\* bold headers, a plain line in lower case and one that begins with a capital
BoldHeaders ==
    <<"*", "*", "R", "e", "s", "p", "o", "n", "s", "i", "b", "i", "l", "i",
      "t", "i", "e", "s", "*", "*", "\n", "-", " ", "a", "\n", "p", "l",
      "e", "a", "s", "e", " ", "a", "p", "p", "l", "y", "\n", "*", " ",
      "b", "\n", "*", "*", "A", "b", "o", "u", "t", " ", "Y", "o", "u",
      "*", "*", "\n", "\n", "S", "k", "i", "l", "l", "s", "\n", "-", " ",
      "c">>

\* capitalized words after a value marker, and two experience requirements
ValuesText ==
    <<"O", "u", "r", " ", "v", "a", "l", "u", "e", "s", ":", " ", "T", "r",
      "u", "s", "t", ",", " ", "R", "e", "s", "p", "e", "c", "t", " ",
      "a", "n", "d", " ", "G", "r", "o", "w", "t", "h", ".", " ", "5",
      "+", " ", "y", "e", "a", "r", "s", " ", "o", "f", " ", "e", "x",
      "p", "e", "r", "i", "e", "n", "c", "e", " ", "i", "n", " ", "D",
      "a", "t", "a", " ", "s", "c", "i", "e", "n", "c", "e", ",", " ",
      "3", " ", "y", "r", "s", " ", "e", "x", "p">>

\* no template matches; the first sentence is capitalized
CapitalizedText ==
    <<"S", "e", "n", "i", "o", "r", " ", "D", "a", "t", "a", " ", "A", "n",
      "a", "l", "y", "s", "t", ".", " ", "a", "p", "p", "l", "y", " ",
      "n", "o", "w">>

JdSpecialTexts ==
    {HiringSentence, LowerCaseHiring, LowerCaseDash, LowerCaseText,
     LongHiring, CppSkillText, MixedCaseSkills, MustHaveText, ScenarioJd,
     ExampleStructure, KeyDuties, TwoPatternHeader, BoldHeaders,
     ValuesText, CapitalizedText}

\* texts of several hundred characters
JdLongTexts ==
    {LongRequiredText, SentenceLengths, ElevenSentences}

\* the texts of up to MaxLines lines
JdLineTexts ==
    UNION {{JoinLines([i \in 1..n |-> JdLines[pick[i]]]) :
               pick \in [1..n -> 1..Len(JdLines)]} : n \in 0..MaxLines}

JdTexts == JdLineTexts \cup JdSpecialTexts

\* str hashing is seeded once for a process
HashSeeds == {0, 1}

NoParserCall == [op |-> "", value |-> <<>>]

\* no parser has been constructed
NoParser ==
    /\ jd_text = <<>>
    /\ hash_seed = 0
    /\ jd_last = NoParserCall
    /\ jd_analysis = <<>>

----------------------------------------------------------------------------
(* The checker object *)

\* the fields after __init__ has run to its end on a path with extension ext,
\* with the rules r and the document d stored at the path: the document is
\* loaded only when the extension is .docx
Construct(ext, r, d) ==
    /\ cv_path = ext
    /\ rules = r
    /\ doc = IF Lower(ext) = ".docx" THEN d ELSE NoDoc
    /\ issues = <<>>
    /\ score = 100
    /\ last = [op |-> "__init__", value |-> 0]
    /\ report = NoReport
    /\ calls = 0
    /\ raised = ""

\* __init__ left with the exception exc: there is no checker
ConstructFails(ext, r, exc) ==
    /\ cv_path = ext
    /\ rules = r
    /\ doc = NoDoc
    /\ issues = <<>>
    /\ score = 100
    /\ last = [op |-> "__init__", value |-> 0]
    /\ report = NoReport
    /\ calls = 0
    /\ raised = exc

\* __init__ that sets self.doc = None when the document cannot be read
InitSwallowsLoadError(ext, f, d) ==
    IF ~Parsable(f) THEN ConstructFails(ext, None, "YAMLError")
    ELSE Construct(ext, LoadRules(f), IF d.loaded THEN d ELSE NoDoc)

\* __init__(cv_path, rules_path) with the rules file f and, at cv_path, the
\* file d (d.loaded = FALSE: Document(cv_path) raises)
__init__(ext, f, d) ==
    IF ~Parsable(f) THEN ConstructFails(ext, None, "YAMLError")
    ELSE IF Lower(ext) = ".docx" /\ ~d.loaded
         THEN ConstructFails(ext, LoadRules(f), "ValueError")
         ELSE Construct(ext, LoadRules(f), d)

Init ==
    /\ \E ext \in Exts, r \in RulesTables, d \in OneSectionDocuments :
           Construct(ext, r, d)
    /\ NoDetector
    /\ NoMatcher
    /\ NoParser

\* is there a checker to call methods on
Constructed == ~(last.op = "__init__" /\ raised # "")

\* a single check_* method called from outside; exc is the exception it
\* raises before it has appended anything ("" when it returns)
RunCheck(name, res, exc) ==
    /\ Constructed
    /\ calls < MaxCalls
    /\ calls' = calls + 1
    /\ raised' = exc
    /\ IF exc # ""
       THEN /\ last' = [op |-> name, value |-> 0]
            /\ UNCHANGED issues
       ELSE /\ issues' = issues \o res.issues
            /\ last' = [op |-> name, value |-> res.ret]
    /\ UNCHANGED <<cv_path, rules, doc, score, report>>
    /\ UNCHANGED <<detector_vars, matcher_vars, parser_vars>>

check_file_format ==
    RunCheck("check_file_format", CheckFileFormat(cv_path, rules),
             FileFormatError(rules))

check_layout == RunCheck("check_layout", CheckLayout(doc), "")

check_fonts == RunCheck("check_fonts", CheckFonts(doc, rules), FontsError(doc, rules))

check_headers_footers ==
    RunCheck("check_headers_footers", CheckHeadersFooters(doc), "")

check_graphics == RunCheck("check_graphics", CheckGraphics(doc), "")

check_special_characters ==
    RunCheck("check_special_characters", CheckSpecialCharacters(doc), "")

\* self.score and self.issues when calculate_total_score is left with an
\* exception
ScoringRaises(name) ==
    /\ score' = 100 + SumRets(ChecksBeforeError(cv_path, rules, doc))
    /\ issues' = issues \o ConcatIssues(ChecksBeforeError(cv_path, rules, doc))
    /\ last' = [op |-> name, value |-> 0]

calculate_total_score ==
    /\ Constructed
    /\ calls < MaxCalls
    /\ calls' = calls + 1
    /\ raised' = ChecksError(rules, doc)
    /\ IF ChecksError(rules, doc) # ""
       THEN ScoringRaises("calculate_total_score")
       ELSE /\ score' = ScoreAfterChecks(cv_path, rules, doc)
            /\ issues' = issues \o ConcatIssues(AllChecks(cv_path, rules, doc))
            /\ last' = [op |-> "calculate_total_score",
                        value |-> TotalScore(cv_path, rules, doc)]
    /\ UNCHANGED <<cv_path, rules, doc, report>>
    /\ UNCHANGED <<detector_vars, matcher_vars, parser_vars>>

generate_report ==
    /\ Constructed
    /\ calls < MaxCalls
    /\ calls' = calls + 1
    /\ raised' = ChecksError(rules, doc)
    /\ IF ChecksError(rules, doc) # ""
       THEN ScoringRaises("generate_report") /\ UNCHANGED report
       ELSE /\ score' = ScoreAfterChecks(cv_path, rules, doc)
            /\ issues' = issues \o ConcatIssues(AllChecks(cv_path, rules, doc))
            /\ LET total_score == TotalScore(cv_path, rules, doc) IN
               /\ report' = [score |-> total_score,
                             grade |-> _get_grade(total_score),
                             issues |-> SortedByDeduction(issues'),
                             recommendations |-> _get_recommendations(issues')]
               /\ last' = [op |-> "generate_report", value |-> total_score]
    /\ UNCHANGED <<cv_path, rules, doc>>
    /\ UNCHANGED <<detector_vars, matcher_vars, parser_vars>>

Next ==
    \/ check_file_format
    \/ check_layout
    \/ check_fonts
    \/ check_headers_footers
    \/ check_graphics
    \/ check_special_characters
    \/ calculate_total_score
    \/ generate_report

\* any sequence of up to MaxCalls method calls on one checker, over the
\* one-section documents
Spec == Init /\ [][Next]_vars

\* one method call on a freshly constructed checker, over all documents
InitFresh ==
    /\ \E ext \in Exts, r \in RulesTables, d \in Documents : Construct(ext, r, d)
    /\ NoDetector
    /\ NoMatcher
    /\ NoParser

NextFresh ==
    \/ (calls = 0 /\ check_file_format)
    \/ (calls = 0 /\ check_layout)
    \/ (calls = 0 /\ check_fonts)
    \/ (calls = 0 /\ check_headers_footers)
    \/ (calls = 0 /\ check_graphics)
    \/ (calls = 0 /\ check_special_characters)
    \/ (calls = 0 /\ calculate_total_score)
    \/ (calls = 0 /\ generate_report)

SpecFresh == InitFresh /\ [][NextFresh]_vars

\* the files that may be stored at cv_path: a document, or something
\* Document() cannot read
Files == OneSectionDocuments \cup {NoDoc}

\* one method call after __init__, over the rules files and the files at cv_path
InitConstruct ==
    /\ \E ext \in Exts, f \in RulesFiles, d \in Files : __init__(ext, f, d)
    /\ NoDetector
    /\ NoMatcher
    /\ NoParser

SpecConstruct == InitConstruct /\ [][NextFresh]_vars

----------------------------------------------------------------------------
(* The detectors *)

\* the checker is not part of the detector's runs
NoChecker == Construct(".docx", DefaultRules, NoDoc)

\* ATSSystemDetector(rules_path) with the rules file f
ATSSystemDetector(f) ==
    /\ constructions < MaxDetectors
    /\ constructions' = constructions + 1
    /\ IF f = "empty.yaml"
       THEN \* 'ats_systems' in None
            /\ det_last' = [NoDetectorCall EXCEPT !.op = "__init__",
                                                  !.raised = "TypeError"]
            /\ UNCHANGED <<ATS_SIGNATURES, detector>>
       ELSE /\ det_last' = [NoDetectorCall EXCEPT !.op = "__init__"]
            /\ detector' = f
            /\ ATS_SIGNATURES' =
                 IF HasAtsSystems(f)
                 THEN MergeSystems(ATS_SIGNATURES, ats_systems(f))
                 ELSE ATS_SIGNATURES
    /\ UNCHANGED <<checker_vars, matcher_vars, parser_vars>>

detect_ats(application_url, page_html) ==
    /\ detector # ""
    /\ det_last' = [NoDetectorCall EXCEPT
                      !.op = "detect_ats", !.url = application_url,
                      !.html = page_html,
                      !.value = DetectAts(ATS_SIGNATURES, application_url, page_html)]
    /\ UNCHANGED <<ATS_SIGNATURES, detector, constructions>>
    /\ UNCHANGED <<checker_vars, matcher_vars, parser_vars>>

get_optimization_tips(ats_name) ==
    /\ detector # ""
    /\ det_last' = [NoDetectorCall EXCEPT
                      !.op = "get_optimization_tips", !.name = ats_name,
                      !.value = GetOptimizationTips(ATS_SIGNATURES, ats_name)]
    /\ UNCHANGED <<ATS_SIGNATURES, detector, constructions>>
    /\ UNCHANGED <<checker_vars, matcher_vars, parser_vars>>

get_all_systems ==
    /\ detector # ""
    /\ det_last' = [NoDetectorCall EXCEPT
                      !.op = "get_all_systems",
                      !.value = GetAllSystems(ATS_SIGNATURES)]
    /\ UNCHANGED <<ATS_SIGNATURES, detector, constructions>>
    /\ UNCHANGED <<checker_vars, matcher_vars, parser_vars>>

InitDetector == NoChecker /\ NoDetector /\ NoMatcher /\ NoParser

NextDetector ==
    \/ \E f \in DetectorRulesFiles : ATSSystemDetector(f)
    \/ \E application_url \in Urls, page_html \in Htmls :
           detect_ats(application_url, page_html)
    \/ \E ats_name \in AtsNames : get_optimization_tips(ats_name)
    \/ get_all_systems

\* up to MaxDetectors detectors constructed in one process, and any calls on
\* the one constructed last
SpecDetector == InitDetector /\ [][NextDetector]_vars

----------------------------------------------------------------------------
(* The matcher *)

\* KeywordMatcher(cv_text, jd_keywords)
KeywordMatcher(text, jd) ==
    /\ cv_text = lower(text)
    /\ jd_keywords = jd
    /\ match = NoMatch
    /\ suggestions = NoSuggestions

\* the missing keywords are appended in the iteration order of a set
calculate_match_percentage ==
    /\ \E missing \in Orderings({k \in AllKeywords(jd_keywords) : ~Search(k, cv_text)}) :
           match' = MatchResult(jd_keywords, cv_text, missing)
    /\ suggestions' = NoSuggestions
    /\ UNCHANGED <<cv_text, jd_keywords>>
    /\ UNCHANGED <<checker_vars, detector_vars, parser_vars>>

\* suggest_keyword_placements: the analysis is a call of
\* calculate_match_percentage
suggest_keyword_placements ==
    /\ \E missing \in Orderings({k \in AllKeywords(jd_keywords) : ~Search(k, cv_text)}) :
           /\ match' = MatchResult(jd_keywords, cv_text, missing)
           /\ suggestions' = Suggestions(match')
    /\ UNCHANGED <<cv_text, jd_keywords>>
    /\ UNCHANGED <<checker_vars, detector_vars, parser_vars>>

InitMatcher ==
    /\ NoChecker
    /\ NoDetector
    /\ NoParser
    /\ \/ \E text \in CvTexts, jd \in JdKeywordSets : KeywordMatcher(text, jd)
       \/ \E text \in LongCvTexts : KeywordMatcher(text, LongJdKeywords)

NextMatcher ==
    \/ calculate_match_percentage
    \/ suggest_keyword_placements

\* a matcher over each text and mapping, and calls of calculate_match_percentage
SpecMatcher == InitMatcher /\ [][NextMatcher]_vars

----------------------------------------------------------------------------
(* The parser and the analyzer.  The model en_core_web_sm is not installed: *)
(* spacy.load raises OSError and self.nlp and self.doc are None.            *)

\* JobDescriptionParser(jd_text) and StructureAnalyzer(jd_text)
JobDescriptionParser(text) ==
    /\ jd_text = text
    /\ jd_last = [op |-> "__init__", value |-> <<>>]

\* another parser and analyzer built from the same text
NewParser ==
    /\ jd_last' = [op |-> "__init__", value |-> <<>>]
    /\ UNCHANGED <<jd_text, hash_seed, jd_analysis>>
    /\ UNCHANGED <<checker_vars, detector_vars, matcher_vars>>

\* a method that returns value and assigns nothing
ParserCall(name, value) ==
    /\ jd_last' = [op |-> name, value |-> value]
    /\ UNCHANGED <<jd_text, hash_seed, jd_analysis>>
    /\ UNCHANGED <<checker_vars, detector_vars, matcher_vars>>

extract_job_title == ParserCall("extract_job_title", ExtractJobTitle(jd_text))

extract_technical_skills ==
    ParserCall("extract_technical_skills", ExtractTechnicalSkills(jd_text))

extract_required_vs_preferred ==
    ParserCall("extract_required_vs_preferred", ExtractRequiredVsPreferred(jd_text))

extract_verbatim_phrases ==
    ParserCall("extract_verbatim_phrases", ExtractVerbatimPhrases(jd_text))

analyze_structure == ParserCall("analyze_structure", AnalyzeStructure(jd_text))

identify_sections == ParserCall("identify_sections", IdentifySections(jd_text))

extract_responsibilities ==
    ParserCall("extract_responsibilities", ExtractResponsibilities(jd_text))

extract_requirements ==
    ParserCall("extract_requirements", ExtractRequirements(jd_text))

get_structure_for_mirroring ==
    ParserCall("get_structure_for_mirroring", GetStructureForMirroring(jd_text))

extract_company_values ==
    ParserCall("extract_company_values", ExtractCompanyValues(jd_text, hash_seed))

calculate_keyword_density ==
    ParserCall("calculate_keyword_density", CalculateKeywordDensity(jd_text))

extract_experience_requirements ==
    ParserCall("extract_experience_requirements",
               ExtractExperienceRequirements(jd_text, hash_seed))

\* extract_all: every extraction method is called on the text
extract_all ==
    /\ jd_analysis' = <<ExtractAll(jd_text, hash_seed)>>
    /\ jd_last' = [op |-> "extract_all", value |-> jd_analysis'[1]]
    /\ UNCHANGED <<jd_text, hash_seed>>
    /\ UNCHANGED <<checker_vars, detector_vars, matcher_vars>>

\* export_keyword_checklist: the analysis is a call of extract_all
export_keyword_checklist ==
    /\ jd_analysis' = <<ExtractAll(jd_text, hash_seed)>>
    /\ jd_last' = [op |-> "export_keyword_checklist",
                   value |-> KeywordChecklist(jd_analysis'[1])]
    /\ UNCHANGED <<jd_text, hash_seed>>
    /\ UNCHANGED <<checker_vars, detector_vars, matcher_vars>>

\* the program is run again on the same text: PYTHONHASHSEED is not set, so
\* the interpreter draws the string hashes anew, and the iteration order of
\* the sets with them; the analysis of the run before is kept to compare
NewProcess ==
    /\ \E seed \in HashSeeds : hash_seed' = seed
    /\ jd_last' = [op |-> "__init__", value |-> <<>>]
    /\ UNCHANGED <<jd_text, jd_analysis>>
    /\ UNCHANGED <<checker_vars, detector_vars, matcher_vars>>

InitParser ==
    /\ NoChecker
    /\ NoDetector
    /\ NoMatcher
    /\ \E text \in JdTexts, seed \in HashSeeds :
           /\ JobDescriptionParser(text)
           /\ hash_seed = seed
           /\ jd_analysis = <<>>

NextParser ==
    \/ NewParser
    \/ NewProcess
    \/ extract_job_title
    \/ extract_technical_skills
    \/ extract_required_vs_preferred
    \/ extract_verbatim_phrases
    \/ analyze_structure
    \/ identify_sections
    \/ extract_responsibilities
    \/ extract_requirements
    \/ get_structure_for_mirroring
    \/ extract_company_values
    \/ calculate_keyword_density
    \/ extract_experience_requirements
    \/ extract_all
    \/ export_keyword_checklist

\* a parser and an analyzer over each text, and calls of their methods
SpecParser == InitParser /\ [][NextParser]_vars

InitLongTexts ==
    /\ NoChecker
    /\ NoDetector
    /\ NoMatcher
    /\ \E text \in JdTexts \cup JdLongTexts, seed \in HashSeeds :
           /\ JobDescriptionParser(text)
           /\ hash_seed = seed
           /\ jd_analysis = <<>>

NextLongTexts ==
    \/ extract_job_title
    \/ extract_required_vs_preferred
    \/ extract_verbatim_phrases

\* the methods that cut the text at 500 characters or count its sentences,
\* over the long texts too
SpecLongTexts == InitLongTexts /\ [][NextLongTexts]_vars

----------------------------------------------------------------------------
(* What a document contains, read off the constructor's inputs.  These are  *)
(* stated on the document itself and not through the checks.                *)

Blank(t) == t \in {"", " "}

AllowedExt == Lower(cv_path) \in rules.formatting.file_formats.allowed

HeaderText(d) ==
    \E i \in 1..Len(d.sections) :
        \E j \in 1..Len(d.sections[i].header) : ~Blank(d.sections[i].header[j])

FooterText(d) ==
    \E i \in 1..Len(d.sections) :
        \E j \in 1..Len(d.sections[i].footer) : ~Blank(d.sections[i].footer[j])

NonAllowedFontRuns ==
    {i \in 1..Len(doc.runs) :
        /\ doc.runs[i].name # ""
        /\ doc.runs[i].name \notin rules.formatting.fonts.allowed}

OutOfRangeSizeRuns ==
    {i \in 1..Len(doc.runs) :
        /\ doc.runs[i].size # 0
        /\ \/ doc.runs[i].size < rules.formatting.fonts.size_range.min
           \/ doc.runs[i].size > rules.formatting.fonts.size_range.max}

\* everything but tables and font names is in order
NothingElseWrong ==
    /\ AllowedExt
    /\ \A i \in 1..Len(doc.sections) : doc.sections[i].columns = 1
    /\ ~HeaderText(doc) /\ ~FooterText(doc)
    /\ \A t \in doc.rels : ~ContainsImage(t)
    /\ OutOfRangeSizeRuns = {}
    /\ doc.text \cap unusual_bullets = {}

CleanDocument == NothingElseWrong /\ doc.tables = 0 /\ NonAllowedFontRuns = {}

Returned(op) == last.op = op /\ raised = ""

FreshReturned(op) == calls = 1 /\ last.op = op /\ raised = ""

----------------------------------------------------------------------------
(* C1: the value calculate_total_score returns and the score of every       *)
(* report lie in 0..100, for every document and rules table.                *)
C1_ScoreInRange ==
    /\ (Returned("calculate_total_score") \/ Returned("generate_report"))
         => last.value \in 0..100
    /\ report # NoReport => report.score \in 0..100

\* two sections that both carry header and footer text, an extension the
\* rules do not allow: the deductions exceed 100 and the score is clamped to 0
C1_Witness ==
    /\ Returned("generate_report")
    /\ score < 0
    /\ report.score = 0
    /\ ~AllowedExt /\ doc.loaded
    /\ Len(doc.sections) = 2
    /\ \A i \in 1..2 : HeaderText([doc EXCEPT !.sections = <<doc.sections[i]>>])
                       /\ FooterText([doc EXCEPT !.sections = <<doc.sections[i]>>])

(* C2: in every report, after any earlier calls on the same checker, the    *)
(* score is max(0, 100 - the sum of the deductions of the report's issues). *)
C2_ScoreIsHundredMinusDeductions ==
    report # NoReport =>
        report.score = Max(0, 100 - SumDeductions(report.issues))

(* C3: a second generate_report (or calculate_total_score) right after a    *)
(* first one, on the same checker, returns what the first returned.         *)
C3_SecondCallSameResult ==
    [][/\ (/\ Returned("generate_report")
           /\ calls' = calls + 1
           /\ last'.op = "generate_report") => report' = report
       /\ (/\ last.op \in {"generate_report", "calculate_total_score"}
           /\ calls' = calls + 1
           /\ last'.op \in {"generate_report", "calculate_total_score"})
            => last'.value = last.value]_vars

(* C4: check_file_format on a fresh checker deducts nothing and records     *)
(* nothing when the lower-cased extension is allowed; otherwise it deducts  *)
(* the file-format weight of the rules table and records one HIGH issue     *)
(* with that deduction.                                                     *)
C4_FileFormatDeduction ==
    FreshReturned("check_file_format") =>
        IF AllowedExt
        THEN last.value = 0 /\ issues = <<>>
        ELSE /\ -last.value = rules.scoring.file_format_weight
             /\ Len(issues) = 1
             /\ issues[1].severity = "HIGH"
             /\ issues[1].deduction = rules.scoring.file_format_weight

(* C5: a fresh checker on a document with no violation at all scores 100    *)
(* with no issue and no recommendation.                                     *)
C5_CleanDocumentScores100 ==
    /\ (FreshReturned("generate_report") /\ CleanDocument) =>
          /\ report.score = 100
          /\ report.issues = <<>>
          /\ report.recommendations = {}
    /\ (FreshReturned("calculate_total_score") /\ CleanDocument) =>
          last.value = 100 /\ issues = <<>>

C5_Witness ==
    /\ FreshReturned("generate_report") /\ CleanDocument /\ doc.loaded
    /\ report.score = 100

----------------------------------------------------------------------------
(* One more violation: the inputs that differ from (ext, r, d) by one added *)
(* violation, every other check's input left as it is.                      *)

OtherExts == Exts \cup {".txt", ".doc"}

OneMoreViolation(ext, r, d) ==
    LET sec == 1..Len(d.sections)
        docs ==
            IF ~d.loaded THEN {}
            ELSE
              {[d EXCEPT !.tables = @ + 1]}
              \cup {[d EXCEPT !.sections[i].columns = 2] : i \in sec}
              \cup {[d EXCEPT !.runs = Append(@, [name |-> "Comic Sans MS", size |-> 0])]}
              \cup {[d EXCEPT !.runs = Append(@, [name |-> "", size |-> z])] : z \in {9, 14}}
              \cup {[d EXCEPT !.sections[i].header = Append(@, "John Doe")] : i \in sec}
              \cup {[d EXCEPT !.sections[i].footer = Append(@, "Page 1")] : i \in sec}
              \cup {[d EXCEPT !.rels = @ \cup {"media/image1.png"}]}
              \cup {[d EXCEPT !.text = @ \cup {g}] : g \in unusual_bullets}
        \* a disallowed extension in place of an allowed one; the document stays
        \* loaded, or stays not loaded, as it was
        exts == {e \in OtherExts :
                    /\ Lower(ext) \in r.formatting.file_formats.allowed
                    /\ Lower(e) \notin r.formatting.file_formats.allowed
                    /\ (Lower(e) = ".docx") = (Lower(ext) = ".docx")}
    IN {<<ext, r, d2>> : d2 \in docs} \cup {<<e, r, d>> : e \in exts}

SeverityClaimed(text) ==
    CASE text \in {"File format is", "Found table(s)",
                   "Multi-column layout detected", "Images/graphics detected"}
             -> "HIGH"
      [] text \in {"Non-standard fonts detected",
                   "Font sizes outside recommended range",
                   "Header contains text", "Footer contains text"}
             -> "MEDIUM"
      [] OTHER -> "LOW"

SeverityAmended(text) ==
    IF text = "Font sizes outside recommended range"
    THEN "LOW" ELSE SeverityClaimed(text)

(* C8 (as claimed): every issue record has the severity of its check type:  *)
(* file format, layout and graphics HIGH; font name, font size and          *)
(* header/footer MEDIUM; special characters LOW.                            *)
C8_SeverityByCheckType ==
    \A i \in 1..Len(issues) :
        issues[i].severity = SeverityClaimed(issues[i].issue)

(* C8 (amended): as claimed, except that a font-size-out-of-range issue is  *)
(* LOW; in the self.issues list and in the issues of every report.          *)
C8_SeverityFontSizeLow ==
    /\ \A i \in 1..Len(issues) :
           issues[i].severity = SeverityAmended(issues[i].issue)
    /\ \A i \in 1..Len(report.issues) :
           report.issues[i].severity = SeverityAmended(report.issues[i].issue)

C8_Witness ==
    /\ Returned("generate_report")
    /\ \E i \in 1..Len(report.issues) :
           /\ report.issues[i].issue = "Font sizes outside recommended range"
           /\ report.issues[i].severity = "LOW"
    /\ \E i \in 1..Len(report.issues) :
           /\ report.issues[i].issue = "Non-standard fonts detected"
           /\ report.issues[i].severity = "MEDIUM"
    /\ \E i \in 1..Len(report.issues) :
           report.issues[i].issue = "Images/graphics detected"

(* C9: check_headers_footers deducts 8 when any header paragraph has text   *)
(* and 7 when any footer paragraph has text, records at most one header     *)
(* issue and at most one footer issue, and never deducts more than 15,      *)
(* however many sections carry header or footer text.                       *)
C9_HeaderFooterFixed ==
    FreshReturned("check_headers_footers") =>
        /\ -last.value = (IF HeaderText(doc) THEN 8 ELSE 0)
                         + (IF FooterText(doc) THEN 7 ELSE 0)
        /\ Cardinality({i \in 1..Len(issues) :
                            issues[i].issue = "Header contains text"}) <= 1
        /\ Cardinality({i \in 1..Len(issues) :
                            issues[i].issue = "Footer contains text"}) <= 1
        /\ -last.value <= 15

GradeLetter(g) ==
    CASE g = "A - Excellent" -> "A"
      [] g = "B - Good" -> "B"
      [] g = "C - Acceptable" -> "C"
      [] g = "D - Needs Improvement" -> "D"
      [] g = "F - Major Issues" -> "F"
      [] OTHER -> "?"

GradeRank(g) ==
    CASE g = "A" -> 4 [] g = "B" -> 3 [] g = "C" -> 2 [] g = "D" -> 1
      [] OTHER -> 0

LetterClaimed(s) ==
    CASE s >= 90 -> "A"
      [] s \in 80..89 -> "B"
      [] s \in 70..79 -> "C"
      [] s \in 60..69 -> "D"
      [] s < 60 -> "F"

(* C10: the grade of a report is the grade of the report's score: >= 90 A,  *)
(* 80..89 B, 70..79 C, 60..69 D, below 60 F; every score in 0..100 has one  *)
(* of the five grades and a higher score never has a worse grade.           *)
C10_GradeFromScore ==
    report # NoReport =>
        /\ GradeLetter(report.grade) = LetterClaimed(report.score)
        /\ \A s \in 0..100 :
              /\ GradeLetter(_get_grade(s)) = LetterClaimed(s)
              /\ GradeLetter(_get_grade(s)) \in {"A", "B", "C", "D", "F"}
              /\ s < 100 => GradeRank(GradeLetter(_get_grade(s + 1)))
                              >= GradeRank(GradeLetter(_get_grade(s)))

\* a report whose score sits on a threshold
C10_Witness ==
    /\ Returned("generate_report")
    /\ report.score = 90
    /\ report.grade = "A - Excellent"

WithDeduction(s, v) == SelectSeq(s, LAMBDA x : x.deduction = v)

(* C11: the issues of a report are ordered by deduction, non-increasing,    *)
(* and issues of equal deduction keep the order in which the checks         *)
(* recorded them in self.issues.                                            *)
C11_SortedStable ==
    Returned("generate_report") =>
        /\ \A i \in 1..(Len(report.issues) - 1) :
               report.issues[i].deduction >= report.issues[i + 1].deduction
        /\ Len(report.issues) = Len(issues)
        /\ \A v \in {issues[i].deduction : i \in 1..Len(issues)} :
               WithDeduction(report.issues, v) = WithDeduction(issues, v)

\* two different issues of equal deduction, and an issue recorded late that
\* the sort moved to the front
C11_Witness ==
    /\ Returned("generate_report")
    /\ \E i \in 1..(Len(report.issues) - 1) :
           /\ report.issues[i].deduction = report.issues[i + 1].deduction
           /\ report.issues[i].issue # report.issues[i + 1].issue
    /\ report.issues # issues

----------------------------------------------------------------------------
\* the rules hold what check_file_format and check_fonts read
UsableRules(r) ==
    /\ r # None
    /\ "formatting" \in DOMAIN r
    /\ {"file_formats", "fonts"} \subseteq DOMAIN r.formatting

(* C12: the rules configuration never makes the checker fail: the           *)
(* constructor does not raise because of the rules file, a rules file that  *)
(* is absent, unparsable or not a mapping with the recognized keys leaves   *)
(* the built-in default rules in self.rules, and no method raises when it   *)
(* reads the rules.                                                         *)
C12_RulesNeverFail ==
    /\ raised \notin {"YAMLError", "TypeError", "KeyError"}
    /\ Constructed => (UsableRules(rules) \/ rules = DefaultRules)

(* C13 as stated: a checker is constructed only with a loaded document, and *)
(* calculate_total_score and generate_report return a score only for a      *)
(* checker whose document was loaded.                                       *)
C13_ScoredOnlyWhenLoaded ==
    /\ Constructed => doc.loaded
    /\ (Returned("calculate_total_score") \/ Returned("generate_report"))
         => doc.loaded

(* C13 amended: for a path whose extension is .docx in any letter case,     *)
(* either the constructor fails with an error or the checker holds a loaded *)
(* document, so a score is never returned for a .docx that could not be     *)
(* read; for any other extension the checker is constructed without a       *)
(* document and the score it returns is that of the file-format check alone.*)
C13_DocxLoadedOrFails ==
    /\ ~Constructed => raised \in {"ValueError", "YAMLError"}
    /\ (Constructed /\ Lower(cv_path) = ".docx") => doc.loaded
    /\ (Constructed /\ Lower(cv_path) # ".docx") => doc = NoDoc
    /\ (/\ Returned("calculate_total_score") \/ Returned("generate_report")
        /\ Lower(cv_path) # ".docx")
         => last.value = IF AllowedExt THEN 100 ELSE 100 - SCORING_WEIGHTS.file_format

\* a .docx path whose file cannot be read: the constructor raised ValueError
C13_Witness ==
    /\ Lower(cv_path) = ".docx"
    /\ last.op = "__init__"
    /\ raised = "ValueError"
    /\ ~doc.loaded

----------------------------------------------------------------------------
DetectorReturned(op) == det_last.op = op /\ det_last.raised = ""

(* C14: a detector constructed without external rules gives the results of  *)
(* the built-in table for detect_ats and get_optimization_tips, whatever    *)
(* detectors were constructed with external rules before it.                *)
C14_OtherDetectorsUnchanged ==
    detector = "absent" =>
        /\ \A u \in Urls, h \in Htmls :
               DetectAts(ATS_SIGNATURES, u, h) = DetectAts(BuiltInSignatures, u, h)
        /\ \A n \in AtsNames :
               GetOptimizationTips(ATS_SIGNATURES, n)
                   = GetOptimizationTips(BuiltInSignatures, n)

\* the table the claim describes: the built-in table, the fields of the
\* external mapping put over a system's fields, a system the built-in table
\* does not have added
ClaimedEntry(sig, e) ==
    IF e.name \in SystemNames(sig) THEN MergeSystem(sig, e) ELSE Append(sig, e)

RECURSIVE ClaimedMerge(_, _)
ClaimedMerge(sig, ext) ==
    IF ext = <<>> THEN sig ELSE ClaimedMerge(ClaimedEntry(sig, Head(ext)), Tail(ext))

(* C15: the table of a detector constructed with an external mapping is the *)
(* built-in table merged with that mapping by system name: the external     *)
(* fields override the built-in ones, and a system only the external        *)
(* mapping has is added, listed by get_all_systems and detectable.          *)
C15_TableIsMerge ==
    (DetectorReturned("__init__") /\ HasAtsSystems(detector)) =>
        /\ ATS_SIGNATURES = ClaimedMerge(BuiltInSignatures, ats_systems(detector))
        /\ \A i \in 1..Len(ats_systems(detector)) :
               ats_systems(detector)[i].name \in SystemNames(ATS_SIGNATURES)

\* some pattern (field) of the system at position i is in the lower-cased text
SystemMatches(sig, i, field, text) ==
    \E j \in 1..Len(sig[i].config[field]) :
        Contains(sig[i].config[field][j], lower(text.s))

\* the first system of the table, in its order, that matches the text
FirstSystem(sig, field, text) ==
    CHOOSE n \in SystemNames(sig) :
        \E i \in 1..Len(sig) :
            /\ sig[i].name = n
            /\ SystemMatches(sig, i, field, text)
            /\ \A k \in 1..(i - 1) : ~SystemMatches(sig, k, field, text)

UrlMatches(sig, url) ==
    Truthy(url) /\ \E i \in 1..Len(sig) : SystemMatches(sig, i, "url_patterns", url)

HtmlMatches(sig, html) ==
    Truthy(html) /\ \E i \in 1..Len(sig) : SystemMatches(sig, i, "html_signatures", html)

(* C16: detect_ats looks at the URL before the page: when a URL pattern of  *)
(* some system is in the URL the result is the first such system in table   *)
(* order, whatever the page is; the page decides only when the URL is       *)
(* absent or matches nothing.                                               *)
C16_UrlBeforeHtml ==
    DetectorReturned("detect_ats") =>
        IF UrlMatches(ATS_SIGNATURES, det_last.url)
        THEN /\ det_last.value
                  = FirstSystem(ATS_SIGNATURES, "url_patterns", det_last.url)
             /\ \A h \in Htmls :
                    DetectAts(ATS_SIGNATURES, det_last.url, h) = det_last.value
        ELSE IF HtmlMatches(ATS_SIGNATURES, det_last.html)
        THEN det_last.value
                 = FirstSystem(ATS_SIGNATURES, "html_signatures", det_last.html)
        ELSE det_last.value = NoSystem

\* the URL names one system and the page carries the signature of another
C16_Witness ==
    /\ DetectorReturned("detect_ats")
    /\ UrlMatches(ATS_SIGNATURES, det_last.url)
    /\ HtmlMatches(ATS_SIGNATURES, det_last.html)
    /\ FirstSystem(ATS_SIGNATURES, "html_signatures", det_last.html) # det_last.value
    /\ det_last.value = "workable"

\* the URL contains "boards.greenhouse.io" in some letter case
HasBoardsGreenhouse(url) ==
    /\ url.given
    /\ \E i \in 1..(Len(url.s) - 2) :
           /\ url.s[i] \in {"boards.", "BOARDS.", "Boards."}
           /\ url.s[i + 1] \in {"greenhouse", "GREENHOUSE", "GreenHouse"}
           /\ url.s[i + 2] \in {".io", ".IO"}

(* C17: with the built-in table detect_ats returns 'greenhouse' for every   *)
(* URL that contains "boards.greenhouse.io" in any letter case, returns     *)
(* None exactly when the URL is absent or has no pattern and the page is    *)
(* absent or has no signature, and raises nothing for absent or empty       *)
(* inputs.                                                                  *)
C17_BuiltInGreenhouse ==
    (det_last.op = "detect_ats" /\ ATS_SIGNATURES = BuiltInSignatures) =>
        /\ det_last.raised = ""
        /\ HasBoardsGreenhouse(det_last.url) => det_last.value = "greenhouse"
        /\ det_last.value = NoSystem
             <=> (/\ ~UrlMatches(BuiltInSignatures, det_last.url)
                  /\ ~HtmlMatches(BuiltInSignatures, det_last.html))

\* an upper-case greenhouse URL with a page that carries another signature
C17_Witness ==
    /\ DetectorReturned("detect_ats")
    /\ ATS_SIGNATURES = BuiltInSignatures
    /\ HasBoardsGreenhouse(det_last.url)
    /\ "BOARDS." \in {det_last.url.s[i] : i \in 1..Len(det_last.url.s)}
    /\ det_last.value = "greenhouse"
    /\ HtmlMatches(BuiltInSignatures, det_last.html)

----------------------------------------------------------------------------
MatchReturned == match # NoMatch

ScenarioKeywords ==
    <<[category |-> "skills",
       keywords |-> <<<<"S", "Q", "L">>,
                      <<"P", "y", "t", "h", "o", "n">>,
                      <<"T", "a", "b", "l", "e", "a", "u">>>>]>>

(* C18: match_percentage is matched / total * 100 rounded to one decimal    *)
(* place when total > 0 and 0 when total = 0 (here in tenths of a percent:  *)
(* the tenth nearest to the exact value); it lies in [0, 100]; matched is   *)
(* at most total; and for {skills: [SQL, Python, Tableau]} against          *)
(* "I use SQL and Python daily" the result is total 3, matched 2, 66.7.     *)
C18_MatchPercentage ==
    MatchReturned =>
        /\ match.matched_keywords <= match.total_keywords
        /\ match.match_percentage \in 0..1000
        /\ match.total_keywords = 0 => match.match_percentage = 0
        /\ match.total_keywords > 0 =>
               LET d == 1000 * match.matched_keywords
                          - match.match_percentage * match.total_keywords
               IN 2 * d <= match.total_keywords /\ -2 * d <= match.total_keywords
        /\ (jd_keywords = ScenarioKeywords /\ cv_text = lower(ScenarioText)) =>
               /\ match.total_keywords = 3
               /\ match.matched_keywords = 2
               /\ match.match_percentage = 667

\* the scenario of the claim has been computed
C18_Witness ==
    /\ MatchReturned
    /\ jd_keywords = ScenarioKeywords
    /\ cv_text = lower(ScenarioText)
    /\ match.match_percentage = 667

RECURSIVE SumField(_, _)
SumField(s, field) ==
    IF s = <<>> THEN 0 ELSE Head(s)[field] + SumField(Tail(s), field)

\* the percentage recomputed from the sums of category_breakdown is within
\* 0.1 (one tenth) of match_percentage
BreakdownAgrees ==
    LET M == SumField(match.category_breakdown, "matched")
        T == SumField(match.category_breakdown, "total")
    IN IF T = 0 THEN match.match_percentage = 0
       ELSE /\ 1000 * M - match.match_percentage * T <= T
            /\ match.match_percentage * T - 1000 * M <= T

(* C19 as stated: for every text and every mapping the percentage           *)
(* recomputed from category_breakdown equals match_percentage within 0.1.   *)
C19_BreakdownAgrees == MatchReturned => BreakdownAgrees

\* the positions of the non-empty keywords of a category
NonEmptyAt(keywords) == {i \in 1..Len(keywords) : keywords[i] # <<>>}

\* no keyword is listed twice, in one category or in two, once the keywords
\* are lower-cased and stripped
NoRepeatedKeyword(jd) ==
    \A c1, c2 \in 1..Len(jd) :
        \A i \in NonEmptyAt(jd[c1].keywords), j \in NonEmptyAt(jd[c2].keywords) :
            strip(lower(jd[c1].keywords[i])) = strip(lower(jd[c2].keywords[j]))
                => (c1 = c2 /\ i = j)

(* C19 amended: when no keyword is listed more than once over all           *)
(* categories (compared lower-cased and stripped), the percentage           *)
(* recomputed from category_breakdown equals match_percentage within 0.1.   *)
C19_BreakdownAgreesNoRepeats ==
    (MatchReturned /\ NoRepeatedKeyword(jd_keywords)) => BreakdownAgrees

\* two categories without a repeated keyword, some keywords matched and some not
C19_Witness ==
    /\ MatchReturned
    /\ NoRepeatedKeyword(jd_keywords)
    /\ Len(jd_keywords) = 2
    /\ match.matched_keywords > 0
    /\ match.matched_keywords < match.total_keywords

\* the keyword occurs in the text, letter case aside, with no word character
\* right before or right after the occurrence
WholeWordOccurs(keyword, text) ==
    \E i \in 0..(Len(text) - Len(keyword)) :
        /\ lower(SubSeq(text, i + 1, i + Len(keyword))) = lower(keyword)
        /\ ~WordAt(text, i)
        /\ ~WordAt(text, i + Len(keyword) + 1)

\* the keyword is counted as matched: it is not in the list of missing keywords
CountedMatched(keyword) ==
    keyword \notin {match.missing_keywords_list[i] :
                       i \in 1..Len(match.missing_keywords_list)}

(* C20: every non-empty keyword, whatever characters it contains, is        *)
(* counted as matched exactly when it occurs in the CV text as a whole word *)
(* or phrase, letter case aside.                                            *)
C20_WholeWordMatch ==
    MatchReturned =>
        \A c \in 1..Len(jd_keywords) :
            \A i \in NonEmptyAt(jd_keywords[c].keywords) :
                LET keyword == strip(lower(jd_keywords[c].keywords[i]))
                IN CountedMatched(keyword) <=> WholeWordOccurs(keyword, cv_text)

----------------------------------------------------------------------------
SuggestionsReturned == suggestions # NoSuggestions

(* C21: every suggestion of suggest_keyword_placements has priority MEDIUM, *)
(* also when the mapping has a category named required_keywords; the        *)
(* suggestions are those for the first 10 entries of missing_keywords_list, *)
(* one each, in that order.                                                 *)
C21_SuggestionsMedium ==
    SuggestionsReturned =>
        /\ \A i \in 1..Len(suggestions) : suggestions[i].priority = "MEDIUM"
        /\ Len(suggestions) <= 10
        /\ Len(suggestions) = IF Len(match.missing_keywords_list) < 10
                              THEN Len(match.missing_keywords_list) ELSE 10
        /\ \A i \in 1..Len(suggestions) :
               suggestions[i].keyword = match.missing_keywords_list[i]

\* more than 10 keywords are missing, some of them of the category
\* required_keywords, and 10 suggestions were made
C21_Witness ==
    /\ SuggestionsReturned
    /\ Len(match.missing_keywords_list) > 10
    /\ Len(suggestions) = 10
    /\ \E c \in 1..Len(jd_keywords) :
           /\ jd_keywords[c].category = "required_keywords"
           /\ \E i \in 1..Len(jd_keywords[c].keywords) :
                  jd_keywords[c].keywords[i] = suggestions[1].keyword

----------------------------------------------------------------------------
(* Claims about the parser and the analyzer *)

ParserReturned(op) == jd_last.op = op

\* the templates whose match has at most 6 words
AcceptedTemplates(s) ==
    {i \in 1..Len(TitleCaptures(s)) :
        /\ TitleCaptures(s)[i] # <<>>
        /\ Len(split(TitleCaptures(s)[i])) <= 6}

\* the first 500 characters have a span between periods of 2 to 5 words in
\* which every word that begins with a letter begins with a capital
CapitalizedSpan(s) ==
    LET spans == SplitAt(".", Prefix(s, 500))
    IN \E i \in 1..Len(spans) :
           /\ Len(split(spans[i])) \in 2..5
           /\ \A w \in 1..Len(split(spans[i])) :
                  split(spans[i])[w][1] \notin LowerLetters

\* the text is made of lower-case words only
OnlyLowerCaseWords(s) ==
    \A i \in 1..Len(s) : s[i] \in LowerLetters \cup Whitespace

(* C22: extract_job_title returns "Unknown Title" for every text in which   *)
(* no template matches with at most 6 words and whose first 500 characters  *)
(* have no capitalized span of 2 to 5 words; the empty text and every text  *)
(* made only of lower-case words are such texts.                            *)
C22_UnknownTitle ==
    ParserReturned("extract_job_title") =>
        /\ (AcceptedTemplates(jd_text) = {} /\ ~CapitalizedSpan(jd_text)) =>
               jd_last.value = UnknownTitle
        /\ OnlyLowerCaseWords(jd_text) => jd_last.value = UnknownTitle

(* C28: extract_job_title returns the whitespace-collapsed capture of the   *)
(* first template, in the order of the list, whose match has at most 6      *)
(* words, templates with a longer match being passed over; for the sentence *)
(* "We're hiring a Senior Data Analyst to join our team." the title         *)
(* contains "Data Analyst".                                                 *)
C28_FirstAcceptedTemplate ==
    ParserReturned("extract_job_title") =>
        /\ AcceptedTemplates(jd_text) # {} =>
               jd_last.value =
                   JoinWords(split(TitleCaptures(jd_text)[Min(AcceptedTemplates(jd_text))]))
        /\ jd_text = HiringSentence =>
               Contains(<<"D", "a", "t", "a", " ", "A", "n", "a", "l", "y", "s", "t">>, jd_last.value)

\* the first template matched with seven words and the title is the capture
\* of the fourth
C28_Witness ==
    /\ ParserReturned("extract_job_title")
    /\ jd_text = LongHiring
    /\ Len(split(TitleCaptures(jd_text)[1])) = 7
    /\ jd_last.value = <<"D", "a", "t", "a", " ", "E", "n", "g", "i", "n", "e", "e", "r">>

\* the terms of all patterns of SKILL_PATTERNS
Vocabulary ==
    UNION {{SKILL_PATTERNS[c].terms[k] : k \in 1..Len(SKILL_PATTERNS[c].terms)} :
              c \in 1..Len(SKILL_PATTERNS)}

\* the vocabulary terms that stand in the text as whole words, letter case
\* aside
TermsInText(s) == {term \in Vocabulary : WholeWordOccurs(term, s)}

(* C29: extract_technical_skills returns a list without duplicates, in      *)
(* ascending order, whose elements are the vocabulary terms of the category *)
(* patterns that stand in the text as whole words, letter case aside (in    *)
(* the spelling of the text); it is not empty when the text contains a      *)
(* vocabulary term; and tools_technologies of extract_all equals            *)
(* technical_skills.                                                        *)
C29_TechnicalSkills ==
    /\ ParserReturned("extract_technical_skills") =>
           /\ \A i, j \in 1..Len(jd_last.value) :
                  i < j => StrLess(jd_last.value[i], jd_last.value[j])
           /\ {lower(jd_last.value[i]) : i \in 1..Len(jd_last.value)}
                  = {lower(term) : term \in TermsInText(jd_text)}
           /\ TermsInText(jd_text) # {} => jd_last.value # <<>>
    /\ ParserReturned("extract_all") =>
           jd_last.value.tools_technologies = jd_last.value.technical_skills

\* every line of the list is a piece of one of the windows of the markers
InsideWindows(lines, markers, s) ==
    \A i \in 1..Len(lines) :
        \E w \in 1..Len(Windows(markers, s)) :
            Contains(lines[i], Windows(markers, s)[w])

(* C27: every line extract_required_vs_preferred returns as required lies   *)
(* inside the window of a required marker (the text from the marker's first *)
(* occurrence in the lower-cased text up to 500 characters on), and every   *)
(* preferred line inside the window of a preferred marker: no text from     *)
(* outside a window contributes.                                            *)
C27_LinesInsideWindows ==
    ParserReturned("extract_required_vs_preferred") =>
        /\ InsideWindows(jd_last.value.required, REQUIRED_MARKERS, jd_text)
        /\ InsideWindows(jd_last.value.preferred, PREFERRED_MARKERS, jd_text)

\* the sentences of the text, stripped: the text is cut at every '.', '!' or
\* '?' that whitespace follows
Sentences(s) == [i \in 1..Len(SplitSentences(s)) |-> strip(SplitSentences(s)[i])]

\* the sentence has 10 to 30 words and contains a skill indicator, letter
\* case aside
QualifyingSentence(sent) ==
    /\ Len(split(sent)) \in 10..30
    /\ \E i \in 1..Len(skill_indicators) : Contains(skill_indicators[i], lower(sent))

\* the positions of the qualifying sentences
QualifyingAt(s) == {i \in 1..Len(Sentences(s)) : QualifyingSentence(Sentences(s)[i])}

(* C30: extract_verbatim_phrases returns at most 10 phrases: the first 10   *)
(* qualifying sentences (10 to 30 words, with a skill indicator) of the     *)
(* text in document order, all of them when there are fewer; the list is    *)
(* not empty when the text has a qualifying sentence.                       *)
C30_VerbatimPhrases ==
    ParserReturned("extract_verbatim_phrases") =>
        /\ Len(jd_last.value) <= 10
        /\ Len(jd_last.value) = Min({10, Cardinality(QualifyingAt(jd_text))})
        /\ \A k \in 1..Len(jd_last.value) :
               \E i \in QualifyingAt(jd_text) :
                   /\ Cardinality({j \in QualifyingAt(jd_text) : j < i}) = k - 1
                   /\ jd_last.value[k] = Sentences(jd_text)[i]
        /\ QualifyingAt(jd_text) # {} => jd_last.value # <<>>

\* eleven sentences qualify and the first ten are returned
C30_Witness ==
    /\ ParserReturned("extract_verbatim_phrases")
    /\ jd_text = ElevenSentences
    /\ Cardinality(QualifyingAt(jd_text)) = 11
    /\ Len(jd_last.value) = 10
    /\ jd_last.value[10] = Sentences(jd_text)[10]

\* the bulleted lines from line j on, up to the first line that is not empty
\* and is not bulleted (an ALL-CAPS header of another classification is such
\* a line)
RECURSIVE BulletRun(_, _)
BulletRun(lines, j) ==
    IF j > Len(lines) THEN <<>>
    ELSE IF BulletText(lines[j]) # <<>>
    THEN <<BulletText(lines[j])>> \o BulletRun(lines, j + 1)
    ELSE IF strip(lines[j]) = <<>> THEN BulletRun(lines, j + 1)
    ELSE <<>>

\* the bullet runs of the headers that Classified accepts, in the order of
\* the headers
AttributedBullets(s, Classified(_)) ==
    LET lines == SplitAt("\n", s)
    IN Concatenation([i \in 1..Len(lines) |->
           Concatenation([k \in 1..Len(HeaderMatches(lines[i])) |->
               IF Classified(HeaderMatches(lines[i])[k])
               THEN BulletRun(lines, i + 1) ELSE <<>>])])

(* C25: the bullets analyze_structure attributes to a classified header are *)
(* the bulleted lines that follow it up to the first line that is a new     *)
(* ALL-CAPS header of another classification or is not bulleted and not     *)
(* empty; for "RESPONSIBILITIES:", "- a", "REQUIREMENTS:", "- b" the        *)
(* responsibilities are [a] and the requirements [b], from the parser and   *)
(* from the analyzer.                                                       *)
C25_BulletsUnderHeader ==
    /\ ParserReturned("analyze_structure") =>
           /\ jd_last.value.responsibilities
                  = AttributedBullets(jd_text, ResponsibilitiesHeader)
           /\ jd_last.value.requirements
                  = AttributedBullets(jd_text, RequirementsHeader)
    /\ (jd_text = ExampleStructure
            /\ (ParserReturned("analyze_structure")
                    \/ ParserReturned("get_structure_for_mirroring"))) =>
           /\ jd_last.value.responsibilities = <<<<"a">>>>
           /\ jd_last.value.requirements = <<<<"b">>>>

\* the keys of the dict extract_all returns
AnalysisKeys ==
    {"job_title", "technical_skills", "required_skills", "preferred_skills",
     "tools_technologies", "verbatim_phrases", "company_values", "structure",
     "keyword_density", "experience_requirements"}

\* the keys of the dict under 'structure'
StructureKeys == {"sections", "responsibilities", "requirements"}

\* the keys of extract_all that hold lists
ListFields == AnalysisKeys \ {"job_title", "structure"}

\* x is a list, of any length
IsList(x) == DOMAIN x = 1..Len(x)

(* C24: for every text, the empty one included, the result of extract_all   *)
(* has every key, 'structure' has sections, responsibilities and            *)
(* requirements, every list field is a list, and for the empty text, where  *)
(* nothing is found, every list field is the empty list and the title is    *)
(* "Unknown Title".                                                         *)
C24_AllKeysAlways ==
    ParserReturned("extract_all") =>
        /\ DOMAIN jd_last.value = AnalysisKeys
        /\ DOMAIN jd_last.value.structure = StructureKeys
        /\ \A k \in ListFields : IsList(jd_last.value[k])
        /\ \A k \in StructureKeys : IsList(jd_last.value.structure[k])
        /\ jd_text = <<>> =>
               /\ \A k \in ListFields : jd_last.value[k] = <<>>
               /\ \A k \in StructureKeys : jd_last.value.structure[k] = <<>>
               /\ jd_last.value.job_title = UnknownTitle

\* extract_all has returned for the empty text
C24_Witness ==
    /\ ParserReturned("extract_all")
    /\ jd_text = <<>>
    /\ jd_last.value.required_skills = <<>>
    /\ jd_last.value.structure.sections = <<>>
    /\ jd_last.value.keyword_density = <<>>

(* C23: no step changes the text of the parser, and a call of extract_all   *)
(* that follows another on the same text, on the same parser or on a parser *)
(* built anew from the text, returns the analysis the earlier call          *)
(* returned: every field equal, the lists built from sets in the same       *)
(* order.                                                                   *)
C23_SameAnalysis ==
    [][/\ jd_text' = jd_text
       /\ (jd_last'.op = "extract_all" /\ jd_analysis # <<>>) =>
              jd_analysis' = jd_analysis]_vars

(* C26: the 'structure' field of extract_all has the section names of       *)
(* StructureAnalyzer.identify_sections, the responsibilities of             *)
(* extract_responsibilities and the requirements of extract_requirements,   *)
(* for every text.                                                          *)
C26_StructureAsAnalyzer ==
    ParserReturned("extract_all") =>
        /\ jd_last.value.structure.sections
               = SectionNames(IdentifySections(jd_text))
        /\ jd_last.value.structure.responsibilities
               = ExtractResponsibilities(jd_text)
        /\ jd_last.value.structure.requirements = ExtractRequirements(jd_text)

====
